---- MODULE Spec2Model ----
(***************************************************************************)
(* A model of aurelia2-testing-library's user-event sequencer              *)
(* (src/src/user-event.ts).  The DOM is a small document of elements; an   *)
(* operation of the sequencer is one action, which dispatches its events   *)
(* into `log` (the events of the most recent call, in dispatch order) and  *)
(* mutates element state exactly in the order the code does.               *)
(*                                                                         *)
(* Strings that the code builds or takes apart (values, texts, key names)  *)
(* are sequences of one-character strings; event type names, tag names and *)
(* error names are atomic strings.                                         *)
(***************************************************************************)
EXTENDS Integers, Sequences, FiniteSets, TLC

VARIABLES
    doc,     \* the document: a sequence of element descriptors, in DOM order (static)
    els,     \* per element: [disabled, checked, selected, value, files]
    active,  \* document.activeElement: an element id, Body, or Null
    env,     \* the hosting DOM: [PointerEvent, activation]
    log,     \* the events dispatched during the most recent call
    call,    \* the most recent call: [op, target, arg, err, pre]
    tasks,   \* the operations in flight, where calls are not awaited one by one
    screen,  \* screen.ts: [currentElement, cachedElement, cachedQueries], and document.body
    fixtures, \* render: the fixtures rendered so far and the set of the mounted ones
    app      \* one fixture's application: its starts and the calls of result.start()

vars == <<doc, els, active, env, log, call, tasks, screen, fixtures, app>>

-----------------------------------------------------------------------------
(* Bounds of the model *)

\* at most this many elements of a fixture start out disabled
MaxDisabled == 1

-----------------------------------------------------------------------------
(* Elements *)

Ids == 1..Len(doc)

\* document.activeElement === null (a document without a body)
Null == 0
\* document.body, the first element of a document that has one
HasBody == Len(doc) > 0 /\ doc[1].tag = "body"
Body == IF HasBody THEN 1 ELSE Null

NoErr == [name |-> "", item |-> <<>>]

\* An element descriptor.  htmlFor and parent are element ids (0: none).
El(tag, type) ==
    [tag |-> tag, type |-> type, name |-> "", htmlFor |-> 0, parent |-> 0,
     multiple |-> FALSE, tabIndex |-> -1, href |-> FALSE, editable |-> FALSE,
     value |-> <<>>, text |-> <<>>]

ElState(disabled, checked, selected, value) ==
    [disabled |-> disabled, checked |-> checked, selected |-> selected,
     value |-> value, files |-> <<>>]

tagEquals(e, tag) == doc[e].tag = tag
isInputElement(e) == tagEquals(e, "input")
isTextAreaElement(e) == tagEquals(e, "textarea")
isSelectElement(e) == tagEquals(e, "select")
isOptionElement(e) == tagEquals(e, "option")
isLabelElement(e) == tagEquals(e, "label")

\* isHTMLElement: every element of the fixtures but an <svg> is an HTMLElement
isHTMLElement(e) == doc[e].tag # "svg"

\* 'disabled' in el: the elements whose DOM interface has a disabled property
hasDisabledProperty(e) ==
    doc[e].tag \in {"input", "button", "select", "textarea", "option"}

isDisabled(w, e) == hasDisabledProperty(e) /\ w.els[e].disabled

isFocusable(w, e) ==
    IF ~isHTMLElement(e) \/ isDisabled(w, e) THEN FALSE
    ELSE IF doc[e].tag \in {"input", "select", "textarea", "button"} THEN TRUE
    ELSE IF doc[e].tag = "a" THEN doc[e].href
    ELSE doc[e].tabIndex >= 0

-----------------------------------------------------------------------------
(* Events *)

\* An event as a listener observes it: its init fields, and the document's
\* activeElement and the target's value and checked state at dispatch time.
\* native marks an event the DOM itself fires (focus change, activation).
Event(type, target) ==
    [type |-> type, target |-> target, buttons |-> 0, button |-> 0,
     key |-> <<>>, code |-> <<>>, shiftKey |-> FALSE, inputType |-> "",
     data |-> <<>>, native |-> FALSE]

Observed(w, ev) ==
    [type |-> ev.type, target |-> ev.target, buttons |-> ev.buttons,
     button |-> ev.button, key |-> ev.key, code |-> ev.code,
     shiftKey |-> ev.shiftKey, inputType |-> ev.inputType, data |-> ev.data,
     native |-> ev.native,
     active |-> w.active,
     value |-> w.els[ev.target].value, checked |-> w.els[ev.target].checked]

\* Evaluate the world an expression denotes once, then go on with it: the
\* steps of an operation run one after the other, each on the result of the
\* one before.
Bind(w, F(_)) == CHOOSE r \in {F(x) : x \in {w}} : TRUE

Record(w, ev) ==
    Bind(w, LAMBDA x : [x EXCEPT !.log = Append(@, Observed(x, ev))])

NativeEvent(type, target) == [Event(type, target) EXCEPT !.native = TRUE]

\* The radios a radio is grouped with: same non-empty name, same document.
RadioGroup(e) ==
    IF doc[e].name = "" THEN {e}
    ELSE {r \in Ids : isInputElement(r) /\ doc[r].type = "radio" /\ doc[r].name = doc[e].name}

\* checked = TRUE on a radio: the other radios of `group` become unchecked
checkRadio(w, e, group) ==
    Bind(w, LAMBDA x :
        [x EXCEPT !.els =
            [r \in Ids |-> IF r = e THEN [@[r] EXCEPT !.checked = TRUE]
                           ELSE IF r \in group THEN [@[r] EXCEPT !.checked = FALSE]
                           ELSE @[r]]])

\* The DOM's own activation behaviour of a dispatched click event (HTML
\* standard: browsers, jsdom, happy-dom): a checkbox toggles and fires input
\* and change; an unchecked radio becomes the checked one of its group and
\* fires input and change.  A disabled control has no activation behaviour.
activationBehavior(w, e) ==
    Bind(w, LAMBDA x :
        IF ~env.activation \/ ~isInputElement(e) \/ isDisabled(x, e) THEN x
        ELSE IF doc[e].type = "checkbox" THEN
            Record(Record([x EXCEPT !.els[e].checked = ~@],
                          NativeEvent("input", e)), NativeEvent("change", e))
        ELSE IF doc[e].type = "radio" /\ ~x.els[e].checked THEN
            Record(Record(checkRadio(x, e, RadioGroup(e)),
                          NativeEvent("input", e)), NativeEvent("change", e))
        ELSE x)

\* el.dispatchEvent(ev): listeners observe the event, then the DOM's default
\* action runs.
dispatchEvent(w, ev) ==
    IF ev.type = "click" THEN activationBehavior(Record(w, ev), ev.target)
    ELSE Record(w, ev)

fireMouse(w, e, type, buttons, button) ==
    dispatchEvent(w, [Event(type, e) EXCEPT !.buttons = buttons, !.button = button])

firePointer(w, e, type, buttons, button) ==
    IF ~env.PointerEvent THEN w
    ELSE dispatchEvent(w, [Event(type, e) EXCEPT !.buttons = buttons, !.button = button])

fireKeyboard(w, e, type, key, code, shiftKey) ==
    dispatchEvent(w, [Event(type, e) EXCEPT !.key = key, !.code = code, !.shiftKey = shiftKey])

fireInput(w, e, inputType, data) ==
    dispatchEvent(w, [Event("input", e) EXCEPT !.inputType = inputType, !.data = data])

fireChange(w, e) == dispatchEvent(w, Event("change", e))

fireClipboard(w, e, type, text) ==
    dispatchEvent(w, [Event(type, e) EXCEPT !.data = text])

-----------------------------------------------------------------------------
(* Focus *)

\* HTMLElement.focus() of the DOM: a focusable area that is not disabled
\* becomes the active element; the element losing focus gets blur first.
nativeFocus(w, e) ==
    Bind(w, LAMBDA x :
        IF isDisabled(x, e) \/ ~(doc[e].tabIndex >= 0 \/ doc[e].editable) THEN x
        ELSE Record(Bind(IF x.active \in Ids \ {Body}
                         THEN Record(x, NativeEvent("blur", x.active)) ELSE x,
                         LAMBDA y : [y EXCEPT !.active = e]),
                    NativeEvent("focus", e)))

\* HTMLElement.blur() of the DOM
nativeBlur(w, e) ==
    Bind(w, LAMBDA x :
        IF e = Body THEN x
        ELSE Record([x EXCEPT !.active = Body], NativeEvent("blur", e)))

focusElement(w, e) ==
    Bind(w, LAMBDA x :
        IF ~isHTMLElement(e) THEN x
        ELSE IF x.active = e THEN x
        ELSE nativeFocus(x, e))

blurElement(w, e) ==
    Bind(w, LAMBDA x :
        IF ~isHTMLElement(e) THEN x
        ELSE IF x.active # e THEN x
        ELSE nativeBlur(x, e))

\* if (isFocusable(target)) focusElement(target)
focusIfFocusable(w, e) ==
    Bind(w, LAMBDA x : IF isFocusable(x, e) THEN focusElement(x, e) ELSE x)

\* One statement of an event sequence: firePointer, fireMouse, or the focus step.
PointerFire(type, buttons, button) ==
    [fire |-> "pointer", type |-> type, buttons |-> buttons, button |-> button]
MouseFire(type, buttons, button) ==
    [fire |-> "mouse", type |-> type, buttons |-> buttons, button |-> button]
FocusStep == [fire |-> "focus", type |-> "", buttons |-> 0, button |-> 0]

fireStep(w, target, step) ==
    IF step.fire = "pointer"
    THEN firePointer(w, target, step.type, step.buttons, step.button)
    ELSE IF step.fire = "mouse"
    THEN fireMouse(w, target, step.type, step.buttons, step.button)
    ELSE focusIfFocusable(w, target)

\* the statements of a sequence, one after the other on the same target
RECURSIVE fireSteps(_, _, _, _)
fireSteps(w, target, steps, i) ==
    IF i > Len(steps) THEN w
    ELSE fireSteps(fireStep(w, target, steps[i]), target, steps, i + 1)

-----------------------------------------------------------------------------
(* click *)

\* label.control ?? getElementById(label.htmlFor): the labelled control, or 0
labelControl(e) == doc[e].htmlFor

\* closest('select') of an option: its select, or 0
closestSelect(e) == doc[e].parent

OptionsOf(s) == {o \in Ids : isOptionElement(o) /\ doc[o].parent = s}

\* select.value = v on a single select: the first option in tree order whose
\* value is v becomes the only selected option; with no such option none is.
setSelectValue(w, s, v) ==
    Bind(w, LAMBDA x :
        LET matches == {o \in OptionsOf(s) : doc[o].value = v}
            first == IF matches = {} THEN 0
                     ELSE CHOOSE o \in matches : \A p \in matches : o <= p
        IN  [x EXCEPT !.els = [o \in Ids |-> IF o \in OptionsOf(s)
                                             THEN [@[o] EXCEPT !.selected = (o = first)]
                                             ELSE @[o]]])

\* option.selected = b: on a single select setting an option deselects the others
setSelected(w, o, b) ==
    Bind(w, LAMBDA x :
        LET s == doc[o].parent IN
        IF b /\ s # 0 /\ ~doc[s].multiple
        THEN [x EXCEPT !.els = [p \in Ids |-> IF p \in OptionsOf(s)
                                              THEN [@[p] EXCEPT !.selected = (p = o)]
                                              ELSE @[p]]]
        ELSE [x EXCEPT !.els[o].selected = b])

\* mutant: the focus step after pointerup instead of before it
clickSequence_FocusAfterUp(w, target) ==
    fireSteps(w, target,
              << PointerFire("pointerover", 0, 0),
                 PointerFire("pointerenter", 0, 0),
                 MouseFire("mouseover", 0, 0),
                 MouseFire("mouseenter", 0, 0),
                 PointerFire("pointerdown", 1, 0),
                 MouseFire("mousedown", 1, 0),
                 PointerFire("pointerup", 0, 0),
                 FocusStep,
                 MouseFire("mouseup", 0, 0),
                 MouseFire("click", 0, 0) >>, 1)

\* lines 393-404: the pointer, mouse and focus steps of a click
clickSequence(w, target) ==
    fireSteps(w, target,
              << PointerFire("pointerover", 0, 0),
                 PointerFire("pointerenter", 0, 0),
                 MouseFire("mouseover", 0, 0),
                 MouseFire("mouseenter", 0, 0),
                 PointerFire("pointerdown", 1, 0),
                 MouseFire("mousedown", 1, 0),
                 FocusStep,
                 PointerFire("pointerup", 0, 0),
                 MouseFire("mouseup", 0, 0),
                 MouseFire("click", 0, 0) >>, 1)

\* clickOption that selects the option of a multiple select, selected or not
clickOption_AlwaysSelect(w, target) ==
    Bind(w, LAMBDA x :
        IF ~isOptionElement(target) \/ closestSelect(target) = 0 THEN x
        ELSE fireChange(fireInput(IF ~doc[closestSelect(target)].multiple
                                  THEN setSelectValue(x, closestSelect(target), doc[target].value)
                                  ELSE setSelected(x, target, TRUE),
                                  closestSelect(target), "insertReplacementText", <<>>),
                        closestSelect(target)))

\* lines 406-417: an option inside a select
clickOption(w, target) ==
    Bind(w, LAMBDA x :
        IF ~isOptionElement(target) \/ closestSelect(target) = 0 THEN x
        ELSE
            LET select == closestSelect(target)
                w1 == IF ~doc[select].multiple
                      THEN setSelectValue(x, select, doc[target].value)
                      ELSE setSelected(x, target, ~x.els[target].selected)
            IN  fireChange(fireInput(w1, select, "insertReplacementText", <<>>), select))

\* lines 420-425: a checkbox
clickCheckbox(w, target, wasChecked) ==
    Bind(w, LAMBDA x :
        LET w1 == IF wasChecked = x.els[target].checked
                  THEN [x EXCEPT !.els[target].checked = ~@] ELSE x
        IN  fireChange(fireInput(w1, target, "insertReplacementText", <<>>), target))

\* mutant: the radio is checked but its siblings are left alone
clickRadio_KeepSiblings(w, target) ==
    Bind(w, LAMBDA x :
        IF x.els[target].checked THEN x
        ELSE fireChange(fireInput([x EXCEPT !.els[target].checked = TRUE],
                                  target, "insertReplacementText", <<>>), target))

\* lines 426-444: a radio
clickRadio(w, target) ==
    Bind(w, LAMBDA x :
        IF x.els[target].checked THEN x
        ELSE fireChange(fireInput(checkRadio(x, target, RadioGroup(target)),
                                  target, "insertReplacementText", <<>>), target))

\* mutant: no retargeting
clickTarget_Label(target) == target

\* lines 386-391: a label bound to a control is retargeted to the control
clickTarget(target) ==
    IF isLabelElement(target) /\ labelControl(target) # 0
    THEN labelControl(target) ELSE target

\* lines 392-445: the click on the retargeted element
clickOn(w, target, wasChecked) ==
    Bind(clickOption(clickSequence(w, target), target), LAMBDA x :
        IF ~isInputElement(target) THEN x
        ELSE IF doc[target].type = "checkbox" THEN clickCheckbox(x, target, wasChecked)
        ELSE IF doc[target].type = "radio" THEN clickRadio(x, target)
        ELSE x)

click(w, target0) ==
    Bind(w, LAMBDA x :
        IF isDisabled(x, target0) THEN x
        ELSE clickOn(x, clickTarget(target0), x.els[clickTarget(target0)].checked))

-----------------------------------------------------------------------------
(* dblClick, tripleClick, rightClick, hover, unhover, focus, blur *)

dblClick(w, target) ==
    fireMouse(click(click(w, target), target), target, "dblclick", 0, 0)

\* tripleClick with its dblclick event after the third click
tripleClick_DblClickLast(w, target) ==
    fireMouse(click(click(click(w, target), target), target), target, "dblclick", 0, 0)

tripleClick(w, target) ==
    click(fireMouse(click(click(w, target), target), target, "dblclick", 0, 0), target)

\* rightClick with contextmenu dispatched before the button is released
rightClick_ContextMenuFirst(w, target) ==
    Bind(w, LAMBDA x :
        IF isDisabled(x, target) THEN x
        ELSE fireSteps(x, target,
                       << PointerFire("pointerdown", 2, 0),
                          MouseFire("mousedown", 2, 2),
                          FocusStep,
                          MouseFire("contextmenu", 0, 2),
                          PointerFire("pointerup", 0, 0),
                          MouseFire("mouseup", 0, 2) >>, 1))

rightClick(w, target) ==
    Bind(w, LAMBDA x :
        IF isDisabled(x, target) THEN x
        ELSE fireSteps(x, target,
                       << PointerFire("pointerdown", 2, 0),
                          MouseFire("mousedown", 2, 2),
                          FocusStep,
                          PointerFire("pointerup", 0, 0),
                          MouseFire("mouseup", 0, 2),
                          MouseFire("contextmenu", 0, 2) >>, 1))

hover(w, target) ==
    fireSteps(w, target,
              << PointerFire("pointerover", 0, 0),
                 PointerFire("pointerenter", 0, 0),
                 MouseFire("mouseover", 0, 0),
                 MouseFire("mouseenter", 0, 0) >>, 1)

unhover(w, target) ==
    fireSteps(w, target,
              << PointerFire("pointerout", 0, 0),
                 PointerFire("pointerleave", 0, 0),
                 MouseFire("mouseout", 0, 0),
                 MouseFire("mouseleave", 0, 0) >>, 1)

focus(w, target) == focusElement(w, target)

blur(w, target) == blurElement(w, target)

-----------------------------------------------------------------------------
(* The text tokenizer *)

UpperCase == <<"A", "B", "C", "D", "E", "F", "G", "H", "I", "J", "K", "L", "M",
               "N", "O", "P", "Q", "R", "S", "T", "U", "V", "W", "X", "Y", "Z">>
LowerCase == <<"a", "b", "c", "d", "e", "f", "g", "h", "i", "j", "k", "l", "m",
               "n", "o", "p", "q", "r", "s", "t", "u", "v", "w", "x", "y", "z">>

toLowerCaseChar(c) ==
    IF \E i \in 1..26 : UpperCase[i] = c
    THEN LowerCase[CHOOSE i \in 1..26 : UpperCase[i] = c] ELSE c

\* toLowerCase that leaves every character as it is
toLowerCase_Keep(str) == str

toLowerCase(str) == [i \in 1..Len(str) |-> toLowerCaseChar(str[i])]

\* text.indexOf(ch, from), positions counted from 1; 0 when there is none
indexOf(text, ch, from) ==
    LET hits == {j \in from..Len(text) : text[j] = ch}
    IN  IF hits = {} THEN 0 ELSE CHOOSE j \in hits : \A k \in hits : j <= k

CharToken(c) == [kind |-> "char", value |-> <<c>>]
SpecialToken(name) == [kind |-> "special", value |-> name]

\* a tokenizer that takes a backslash for an escape whatever follows it
RECURSIVE parseFrom_AnyEscape(_, _)
parseFrom_AnyEscape(text, i) ==
    IF i > Len(text) THEN <<>>
    ELSE IF text[i] = "\\" /\ i + 1 <= Len(text)
    THEN <<CharToken(text[i + 1])>> \o parseFrom_AnyEscape(text, i + 2)
    ELSE
        LET end == indexOf(text, "}", i + 1)
        IN  IF text[i] = "{" /\ end > i + 1
            THEN <<SpecialToken(toLowerCase(SubSeq(text, i + 1, end - 1)))>>
                     \o parseFrom_AnyEscape(text, end + 1)
            ELSE <<CharToken(text[i])>> \o parseFrom_AnyEscape(text, i + 1)

RECURSIVE parseFrom(_, _)
parseFrom(text, i) ==
    IF i > Len(text) THEN <<>>
    ELSE IF text[i] = "\\" /\ i + 1 <= Len(text) /\ text[i + 1] = "{"
    THEN <<CharToken("{")>> \o parseFrom(text, i + 2)
    ELSE
        LET end == indexOf(text, "}", i + 1)
        IN  IF text[i] = "{" /\ end > i + 1
            THEN <<SpecialToken(toLowerCase(SubSeq(text, i + 1, end - 1)))>>
                     \o parseFrom(text, end + 1)
            ELSE <<CharToken(text[i])>> \o parseFrom(text, i + 1)

parseText(text) == parseFrom(text, 1)

\* key names and special-key names, spelled as character sequences
N_tab == <<"t", "a", "b">>
N_shift_tab == <<"s", "h", "i", "f", "t", "+", "t", "a", "b">>
N_backspace == <<"b", "a", "c", "k", "s", "p", "a", "c", "e">>
N_delete == <<"d", "e", "l", "e", "t", "e">>
N_space == <<"s", "p", "a", "c", "e">>
K_Enter == <<"E", "n", "t", "e", "r">>
K_Tab == <<"T", "a", "b">>
K_Backspace == <<"B", "a", "c", "k", "s", "p", "a", "c", "e">>

SpecialKey(name, key, code, char) ==
    [name |-> name, key |-> key, code |-> code, char |-> char]

\* the special-key table; char is <<>> for an entry without a char
specialKeys ==
    { SpecialKey(<<"e", "n", "t", "e", "r">>, K_Enter, K_Enter, <<>>),
      SpecialKey(N_tab, K_Tab, K_Tab, <<>>),
      SpecialKey(N_shift_tab, K_Tab, K_Tab, <<>>),
      SpecialKey(N_backspace, K_Backspace, K_Backspace, <<>>),
      SpecialKey(N_delete, <<"D", "e", "l", "e", "t", "e">>,
                 <<"D", "e", "l", "e", "t", "e">>, <<>>),
      SpecialKey(<<"e", "s", "c">>, <<"E", "s", "c", "a", "p", "e">>,
                 <<"E", "s", "c", "a", "p", "e">>, <<>>),
      SpecialKey(<<"e", "s", "c", "a", "p", "e">>, <<"E", "s", "c", "a", "p", "e">>,
                 <<"E", "s", "c", "a", "p", "e">>, <<>>),
      SpecialKey(N_space, <<" ">>, <<"S", "p", "a", "c", "e">>, <<" ">>),
      SpecialKey(<<"a", "r", "r", "o", "w", "l", "e", "f", "t">>,
                 <<"A", "r", "r", "o", "w", "L", "e", "f", "t">>,
                 <<"A", "r", "r", "o", "w", "L", "e", "f", "t">>, <<>>),
      SpecialKey(<<"a", "r", "r", "o", "w", "r", "i", "g", "h", "t">>,
                 <<"A", "r", "r", "o", "w", "R", "i", "g", "h", "t">>,
                 <<"A", "r", "r", "o", "w", "R", "i", "g", "h", "t">>, <<>>),
      SpecialKey(<<"a", "r", "r", "o", "w", "u", "p">>,
                 <<"A", "r", "r", "o", "w", "U", "p">>,
                 <<"A", "r", "r", "o", "w", "U", "p">>, <<>>),
      SpecialKey(<<"a", "r", "r", "o", "w", "d", "o", "w", "n">>,
                 <<"A", "r", "r", "o", "w", "D", "o", "w", "n">>,
                 <<"A", "r", "r", "o", "w", "D", "o", "w", "n">>, <<>>) }

isSpecialKey(name) == \E k \in specialKeys : k.name = name
specialKey(name) == CHOOSE k \in specialKeys : k.name = name

-----------------------------------------------------------------------------
(* Values and tab order *)

\* an input, a textarea or a contenteditable HTMLElement
isEditable(e) ==
    isInputElement(e) \/ isTextAreaElement(e) \/ (isHTMLElement(e) /\ doc[e].editable)

getValue(w, e) == IF isEditable(e) THEN w.els[e].value ELSE <<>>

NotEditable == [name |-> "Element is not editable", item |-> <<>>]

\* setValue throws on an element that is not editable
setValue(w, e, value) ==
    IF isEditable(e) THEN [w EXCEPT !.els[e].value = value]
    ELSE [w EXCEPT !.err = NotEditable]

\* setFiles that adds the files to the ones the input holds
setFiles_Append(w, input, files) == [w EXCEPT !.els[input].files = @ \o files]

setFiles(w, input, files) == [w EXCEPT !.els[input].files = files]

\* querySelectorAll('input, select, textarea, button, a[href],
\* [tabindex]:not([tabindex="-1"])'), without the disabled ones, in DOM order
matchesFocusableSelector(e) ==
    \/ doc[e].tag \in {"input", "select", "textarea", "button"}
    \/ doc[e].tag = "a" /\ doc[e].href
    \/ doc[e].tabIndex >= 0

getFocusableElements(w) ==
    SelectSeq([i \in 1..Len(doc) |-> i],
              LAMBDA e : matchesFocusableSelector(e) /\ ~isDisabled(w, e))

\* focusables.indexOf(active), positions counted from 1; 0 when absent (-1)
seqIndexOf(seq, x) ==
    IF \E i \in 1..Len(seq) : seq[i] = x
    THEN CHOOSE i \in 1..Len(seq) : seq[i] = x ELSE 0

\* if (active != null && active !== next) blurElement(active)
blurActiveUnless(w, next) ==
    Bind(w, LAMBDA x :
        IF x.active # Null /\ x.active # next THEN blurElement(x, x.active) ELSE x)

\* mutant: no wrap-around; focus stops at the last and at the first element
moveFocus_NoWrap(w, shift) ==
    Bind(w, LAMBDA x :
        LET focusables == getFocusableElements(x)
            n == Len(focusables)
        IN  IF n = 0 THEN x
            ELSE
                LET currentIndex == IF x.active # Null
                                    THEN seqIndexOf(focusables, x.active) - 1 ELSE -1
                    nextIndex == IF shift
                                 THEN (IF currentIndex - 1 < 0 THEN 0 ELSE currentIndex - 1)
                                 ELSE (IF currentIndex + 1 > n - 1 THEN n - 1
                                       ELSE currentIndex + 1)
                    next == focusables[nextIndex + 1]
                IN  focusElement(blurActiveUnless(x, next), next))

moveFocus(w, shift) ==
    Bind(w, LAMBDA x :
        LET focusables == getFocusableElements(x)
            n == Len(focusables)
        IN  IF n = 0 THEN x
            ELSE
                LET currentIndex == IF x.active # Null
                                    THEN seqIndexOf(focusables, x.active) - 1 ELSE -1
                    nextIndex == IF shift THEN (currentIndex - 1 + n) % n
                                 ELSE (currentIndex + 1) % n
                    next == focusables[nextIndex + 1]
                IN  focusElement(blurActiveUnless(x, next), next))

-----------------------------------------------------------------------------
(* type, keyboard, clear, paste, upload *)

Failed(w) == w.err # NoErr

Throw(w, name, item) == [w EXCEPT !.err = [name |-> name, item |-> item]]

\* The statements after one that may throw run only if it did not.
IfOk(w, F(_)) == Bind(w, LAMBDA x : IF Failed(x) THEN x ELSE F(x))

\* setValue(target, getValue(target) + text)
appendValue(w, target, text) ==
    Bind(w, LAMBDA x : setValue(x, target, getValue(x, target) \o text))

\* fireKeyboard(target, 'keydown'); fireKeyboard(target, 'keypress')
fireKeyDownPress(w, target, key) ==
    fireKeyboard(fireKeyboard(w, target, "keydown", key, key, FALSE),
                 target, "keypress", key, key, FALSE)

\* typeChar that changes the value before it dispatches keydown
typeChar_ValueFirst(w, target, key) ==
    IfOk(appendValue(w, target, key),
         LAMBDA x : fireKeyboard(fireInput(fireKeyDownPress(x, target, key),
                                           target, "insertText", key),
                                 target, "keyup", key, key, FALSE))

\* lines 518-527: a literal character
typeChar(w, target, key) ==
    IfOk(appendValue(fireKeyDownPress(w, target, key), target, key),
         LAMBDA x : fireKeyboard(fireInput(x, target, "insertText", key),
                                 target, "keyup", key, key, FALSE))

\* lines 529-536: a name that is not in the special-key table
typeUnknown(w, target, name) ==
    fireKeyboard(fireKeyDownPress(w, target, <<"{">> \o name \o <<"}">>),
                 target, "keyup", <<"{">> \o name \o <<"}">>,
                 <<"{">> \o name \o <<"}">>, FALSE)

\* mutant: the first character is dropped instead of the last
typeBackspace_DropFirst(w, target) ==
    Bind(w, LAMBDA x :
        LET current == getValue(x, target)
        IN  IF Len(current) > 0
            THEN IfOk(setValue(x, target, SubSeq(current, 2, Len(current))),
                      LAMBDA y : fireInput(y, target, "deleteContentBackward", <<>>))
            ELSE x)

\* mutant: an input event even when there is nothing to delete
typeBackspace_AlwaysInput(w, target) ==
    Bind(w, LAMBDA x :
        LET current == getValue(x, target)
        IN  IfOk(setValue(x, target, SubSeq(current, 1, Len(current) - 1)),
                 LAMBDA y : fireInput(y, target, "deleteContentBackward", <<>>)))

\* lines 549-554: drop the last character of a non-empty value
typeBackspace(w, target) ==
    Bind(w, LAMBDA x :
        LET current == getValue(x, target)
        IN  IF Len(current) > 0
            THEN IfOk(setValue(x, target, SubSeq(current, 1, Len(current) - 1)),
                      LAMBDA y : fireInput(y, target, "deleteContentBackward", <<>>))
            ELSE x)

\* lines 538-565: a name of the special-key table
typeSpecial(w, target, name) ==
    LET special == specialKey(name)
        key == special.key
        code == special.code
    IN  Bind(fireKeyboard(w, target, "keydown", key, code, FALSE), LAMBDA w1 :
            IF name = N_tab \/ name = N_shift_tab THEN
                moveFocus(fireKeyboard(w1, target, "keyup", key, code, FALSE),
                          name = N_shift_tab)
            ELSE IF name = N_backspace \/ name = N_delete THEN
                IfOk(typeBackspace(w1, target),
                     LAMBDA x : fireKeyboard(x, target, "keyup", key, code, FALSE))
            ELSE IF special.char # <<>> THEN
                IfOk(appendValue(w1, target, special.char),
                     LAMBDA x : fireKeyboard(fireInput(x, target, "insertText", special.char),
                                             target, "keyup", key, code, FALSE))
            ELSE fireKeyboard(w1, target, "keyup", key, code, FALSE))

\* a token typed into whichever element has focus when its turn comes
typeToken_OnActive(w, target, token) ==
    IF token.kind = "char"
    THEN typeChar(w, IF w.active = Null THEN target ELSE w.active, token.value)
    ELSE IF ~isSpecialKey(token.value)
    THEN typeUnknown(w, IF w.active = Null THEN target ELSE w.active, token.value)
    ELSE typeSpecial(w, IF w.active = Null THEN target ELSE w.active, token.value)

typeToken(w, target, token) ==
    IF token.kind = "char" THEN typeChar(w, target, token.value)
    ELSE IF ~isSpecialKey(token.value) THEN typeUnknown(w, target, token.value)
    ELSE typeSpecial(w, target, token.value)

\* lines 513-566: the tokens in order; an error ends the call
RECURSIVE typeTokens(_, _, _, _)
typeTokens(w, target, tokens, i) ==
    IF i > Len(tokens) THEN w
    ELSE IfOk(w, LAMBDA x : typeTokens(typeToken(x, target, tokens[i]), target, tokens, i + 1))

type(w, target, text) ==
    Bind(w, LAMBDA x :
        IF ~isHTMLElement(target) THEN Throw(x, "Target must be an HTMLElement", <<>>)
        ELSE IF isDisabled(x, target) THEN x
        ELSE typeTokens(focusElement(x, target), target, parseText(text), 1))

\* keyboard that does nothing when no element is active
keyboard_SilentWithoutActive(w, text) ==
    Bind(w, LAMBDA x : IF x.active = Null THEN x ELSE type(x, x.active, text))

keyboard(w, text) ==
    Bind(w, LAMBDA x :
        IF x.active = Null
        THEN Throw(x, "No active element to send keyboard input to", <<>>)
        ELSE type(x, x.active, text))

\* clear that dispatches nothing when the value is empty already
clear_OnlyIfNonEmpty(w, target) ==
    Bind(w, LAMBDA x :
        IF isDisabled(x, target) THEN x
        ELSE IF getValue(x, target) = <<>> THEN focusElement(x, target)
        ELSE IfOk(setValue(focusElement(x, target), target, <<>>),
                  LAMBDA y : fireChange(fireInput(y, target, "deleteContentBackward", <<>>),
                                        target)))

clear(w, target) ==
    Bind(w, LAMBDA x :
        IF isDisabled(x, target) THEN x
        ELSE IfOk(setValue(focusElement(x, target), target, <<>>),
                  LAMBDA y : fireChange(fireInput(y, target, "deleteContentBackward", <<>>),
                                        target)))

\* paste that changes the value before it dispatches the paste event
paste_ValueFirst(w, target, text) ==
    Bind(w, LAMBDA x :
        IF isDisabled(x, target) THEN x
        ELSE IfOk(appendValue(focusElement(x, target), target, text),
                  LAMBDA y : fireInput(fireClipboard(y, target, "paste", text),
                                       target, "insertFromPaste", text)))

paste(w, target, text) ==
    Bind(w, LAMBDA x :
        IF isDisabled(x, target) THEN x
        ELSE IfOk(appendValue(fireClipboard(focusElement(x, target), target, "paste", text),
                              target, text),
                  LAMBDA y : fireInput(y, target, "insertFromPaste", text)))

upload(w, target, files) ==
    Bind(w, LAMBDA x :
        IF isDisabled(x, target) THEN x
        ELSE IF doc[target].type # "file"
        THEN Throw(x, "Target input is not type=file", <<>>)
        ELSE fireChange(fireInput(setFiles(x, target, files),
                                  target, "insertReplacementText", <<>>), target))

-----------------------------------------------------------------------------
(* selectOptions, deselectOptions *)

\* A requested value: a string, or an option element (opt # 0).
StringItem(str) == [str |-> str, opt |-> 0]
OptionItem(o) == [str |-> <<>>, opt |-> o]

\* Array.from(options).find(p): the first option of the select, in tree
\* order, that satisfies p; 0 when none does
findOption(target, P(_)) ==
    LET hits == {o \in OptionsOf(target) : P(o)}
    IN  IF hits = {} THEN 0 ELSE CHOOSE o \in hits : \A p \in hits : o <= p

\* mutant: the text content is tried before the value
resolveOption_TextFirst(target, item) ==
    IF item.opt # 0 THEN item.opt
    ELSE
        LET byValue == findOption(target, LAMBDA o : doc[o].value = item.str)
            byText == findOption(target, LAMBDA o : doc[o].text = item.str)
        IN  IF byText # 0 THEN byText ELSE byValue

\* lines 326-339: one requested value; 0 when it matches no option
resolveOption(target, item) ==
    IF item.opt # 0 THEN item.opt
    ELSE
        LET byValue == findOption(target, LAMBDA o : doc[o].value = item.str)
            byText == findOption(target, LAMBDA o : doc[o].text = item.str)
        IN  IF byValue # 0 THEN byValue ELSE byText

\* the resolved options, or the first requested value that matches none
resolveOptions(target, values) ==
    LET resolved == [i \in 1..Len(values) |-> resolveOption(target, values[i])]
        missing == {i \in 1..Len(values) : resolved[i] = 0}
    IN  IF missing = {} THEN [options |-> resolved, err |-> NoErr]
        ELSE [options |-> <<>>,
              err |-> [name |-> "Option not found",
                       item |-> values[CHOOSE i \in missing : \A j \in missing : i <= j].str]]

RECURSIVE setAllSelected(_, _, _, _)
setAllSelected(w, options, b, i) ==
    IF i > Len(options) THEN w
    ELSE setAllSelected(setSelected(w, options[i], b), options, b, i + 1)

selectOptions(w, target, values) ==
    Bind(w, LAMBDA x :
        IF isDisabled(x, target) THEN x
        ELSE
            LET r == resolveOptions(target, values)
            IN  IF r.err # NoErr THEN [x EXCEPT !.err = r.err]
                ELSE IF ~doc[target].multiple /\ r.options = <<>>
                THEN Throw(x, "TypeError", <<>>)
                ELSE
                    LET w1 == IF ~doc[target].multiple
                              THEN setSelected(x, r.options[1], TRUE)
                              ELSE setAllSelected(x, r.options, TRUE, 1)
                    IN  fireChange(fireInput(w1, target, "insertReplacementText", <<>>),
                                   target))

deselectOptions(w, target, values) ==
    Bind(w, LAMBDA x :
        IF isDisabled(x, target) THEN x
        ELSE IF ~doc[target].multiple
        THEN Throw(x, "deselectOptions only works on <select multiple>", <<>>)
        ELSE
            LET r == resolveOptions(target, values)
            IN  IF r.err # NoErr THEN [x EXCEPT !.err = r.err]
                ELSE fireChange(fireInput(setAllSelected(x, r.options, FALSE, 1),
                                          target, "deleteContentBackward", <<>>), target))

-----------------------------------------------------------------------------
(* tab, pointer *)

\* fireKeyboard on document.activeElement, when there is one
fireKeyboardOnActive(w, kind, shift) ==
    Bind(w, LAMBDA x :
        IF x.active # Null THEN fireKeyboard(x, x.active, kind, K_Tab, K_Tab, shift)
        ELSE x)

\* tab whose keyup goes to the element that had focus before the move
tab_KeyupOnOld(w, shift) ==
    Bind(w, LAMBDA x :
        IF x.active = Null THEN moveFocus(x, shift)
        ELSE fireKeyboard(moveFocus(fireKeyboardOnActive(x, "keydown", shift), shift),
                          x.active, "keyup", K_Tab, K_Tab, shift))

tab(w, shift) ==
    fireKeyboardOnActive(moveFocus(fireKeyboardOnActive(w, "keydown", shift), shift),
                         "keyup", shift)

\* A pointer step; target 0, buttons -1 and button -1 stand for an absent field.
PointerStep(target, kind, pointerType) ==
    [target |-> target, type |-> kind, pointerType |-> pointerType,
     buttons |-> -1, button |-> -1]

mouseFromPointer(t) ==
    CASE t = "move" -> "mousemove"
      [] t = "down" -> "mousedown"
      [] t = "up" -> "mouseup"
      [] t = "over" -> "mouseover"
      [] t = "out" -> "mouseout"
      [] t = "enter" -> "mouseenter"
      [] t = "leave" -> "mouseleave"
      [] OTHER -> ""

pointerEventName(t) ==
    CASE t = "move" -> "pointermove"
      [] t = "down" -> "pointerdown"
      [] t = "up" -> "pointerup"
      [] t = "over" -> "pointerover"
      [] t = "out" -> "pointerout"
      [] t = "enter" -> "pointerenter"
      [] t = "leave" -> "pointerleave"
      [] OTHER -> "pointercancel"

\* lines 676-702: one step, on the current target
pointerStep(w, current, action) ==
    LET buttons == IF action.buttons # -1 THEN action.buttons
                   ELSE IF action.type = "down" THEN 1 ELSE 0
        button == IF action.button # -1 THEN action.button ELSE 0
        mouseType == mouseFromPointer(action.type)
    IN  Bind(firePointer(w, current, pointerEventName(action.type), buttons, button),
             LAMBDA x :
                 Bind(IF mouseType # "" /\ action.pointerType = "mouse"
                      THEN fireMouse(x, current, mouseType, buttons, button) ELSE x,
                      LAMBDA y :
                          IF action.type = "down" THEN focusIfFocusable(y, current) ELSE y))

\* pointer whose current target does not carry over to the next step
RECURSIVE pointerSteps_NoCarry(_, _, _, _)
pointerSteps_NoCarry(w, steps, i, current) ==
    IF i > Len(steps) THEN w
    ELSE IF steps[i].target = 0
         THEN Throw(w, "Pointer action requires a target element", <<>>)
    ELSE pointerSteps_NoCarry(pointerStep(w, steps[i].target, steps[i]), steps, i + 1, 0)

RECURSIVE pointerSteps(_, _, _, _)
pointerSteps(w, steps, i, current) ==
    IF i > Len(steps) THEN w
    ELSE
        LET cur == IF steps[i].target # 0 THEN steps[i].target ELSE current
        IN  IF cur = 0 THEN Throw(w, "Pointer action requires a target element", <<>>)
            ELSE pointerSteps(pointerStep(w, cur, steps[i]), steps, i + 1, cur)

pointer(w, steps) == pointerSteps(w, steps, 1, 0)

-----------------------------------------------------------------------------
(* screen: the root the queries of `screen` run against *)

\* The table of queries getQueriesForElement(element, queries) returns: its
\* functions are bound to the element and read the live DOM.  NoTable is the
\* null of cachedQueries.
getQueriesForElement(element) == [element |-> element]
NoTable == [element |-> Null]

\* lines 3-5: the module state as it is when the module is loaded, and
\* document.body (Null: no document, or a document without a body)
InitialScreen(body) ==
    [currentElement |-> Null, cachedElement |-> Null, cachedQueries |-> NoTable,
     body |-> body]

\* lines 7-17: the element a query runs against; Null when it throws
resolveElement(s) ==
    IF s.currentElement # Null THEN s.currentElement ELSE s.body

\* getQueries that returns the cached table whenever there is one
getQueries_KeepCache(s) ==
    IF resolveElement(s) = Null \/ s.cachedQueries # NoTable THEN s
    ELSE [s EXCEPT !.cachedElement = resolveElement(s),
                   !.cachedQueries = getQueriesForElement(resolveElement(s))]

\* lines 19-27: the module state after getQueries(); the table it returns is
\* the cachedQueries of that state.  Nothing changes when resolveElement throws.
getQueries(s) ==
    IF resolveElement(s) = Null THEN s
    ELSE IF s.cachedQueries # NoTable /\ s.cachedElement = resolveElement(s) THEN s
    ELSE [s EXCEPT !.cachedElement = resolveElement(s),
                   !.cachedQueries = getQueriesForElement(resolveElement(s))]

\* lines 43-47
setScreenElement(s, element) ==
    [s EXCEPT !.currentElement = element, !.cachedElement = element,
              !.cachedQueries = getQueriesForElement(element)]

\* lines 49-53
resetScreenElement(s) ==
    [s EXCEPT !.currentElement = Null, !.cachedElement = Null, !.cachedQueries = NoTable]

NoFixtures == [base |-> <<>>, mounted |-> {}]

\* no fixture whose application is looked at
NoApp == [autoStart |-> TRUE, promises |-> <<>>, manualStartPromise |-> Null,
          calls |-> <<>>, queue |-> <<>>, trace |-> <<>>]

-----------------------------------------------------------------------------
(* Fixtures: the documents the operations run against *)

BodyEl == El("body", "")
ButtonEl == [El("button", "submit") EXCEPT !.tabIndex = 0]
DivEl == El("div", "")
TextInputEl == [El("input", "text") EXCEPT !.tabIndex = 0]
CheckboxEl == [El("input", "checkbox") EXCEPT !.tabIndex = 0]
RadioEl(name) == [El("input", "radio") EXCEPT !.tabIndex = 0, !.name = name]
LabelEl(control) == [El("label", "") EXCEPT !.htmlFor = control]
SelectEl(multiple) == [El("select", "") EXCEPT !.tabIndex = 0, !.multiple = multiple]
OptionEl(select, value, text) ==
    [El("option", "") EXCEPT !.parent = select, !.value = value, !.text = text]

\* a form: button, plain div, text input, checkbox and three labels
FormDoc ==
    << BodyEl, ButtonEl, DivEl, TextInputEl, CheckboxEl,
       LabelEl(5), LabelEl(4), LabelEl(0) >>

\* radios: three named "g", one without a name, and a label of the first
RadioDoc ==
    << BodyEl, RadioEl("g"), RadioEl("g"), RadioEl("g"), RadioEl(""), LabelEl(2) >>

Targets(d) == 2..Len(d)

\* The element states a document can start in: at most MaxDisabled elements
\* disabled, any checkbox checked or not, at most one radio of a group
\* checked, nothing selected, empty values.
InitialStates(d) ==
    LET n == Len(d)
        canDisable == {e \in 1..n : d[e].tag \in {"input", "button", "select", "textarea", "option"}}
        canCheck == {e \in 1..n : d[e].tag = "input" /\ d[e].type \in {"checkbox", "radio"}}
        grouped(C) == \A x \in C, y \in C :
                         (x # y /\ d[x].type = "radio" /\ d[y].type = "radio")
                             => (d[x].name # d[y].name \/ d[x].name = "")
    IN  { [e \in 1..n |-> ElState(e \in D, e \in C, FALSE, <<>>)] :
            <<D, C>> \in { dc \in (SUBSET canDisable) \X (SUBSET canCheck) :
                             Cardinality(dc[1]) <= MaxDisabled /\ grouped(dc[2]) } }

Envs == [PointerEvent : BOOLEAN, activation : BOOLEAN]

NoCall == [op |-> "", target |-> 0, arg |-> <<>>, err |-> NoErr,
           pre |-> [els |-> <<>>, active |-> 0]]

InitWith(docs) ==
    /\ doc \in docs
    /\ els \in InitialStates(doc)
    /\ active = Body
    /\ env \in Envs
    /\ log = <<>>
    /\ call = NoCall
    /\ tasks = <<>>
    /\ screen = InitialScreen(Null)
    /\ fixtures = NoFixtures
    /\ app = NoApp

-----------------------------------------------------------------------------
(* The state machine *)

\* The world an operation starts from: the current DOM, an empty event log.
World == [els |-> els, active |-> active, log |-> <<>>, err |-> NoErr]

\* One call of the sequencer, started when the previous call has returned:
\* `w` is the world the operation leaves behind.
Call(op, target, arg, w) ==
    /\ call = NoCall
    /\ \E r \in {w} :
          /\ els' = r.els
          /\ active' = r.active
          /\ log' = r.log
          /\ call' = [op |-> op, target |-> target, arg |-> arg, err |-> r.err,
                      pre |-> [els |-> els, active |-> active]]
    /\ UNCHANGED <<doc, env, tasks, screen, fixtures, app>>

Click == \E t \in Targets(doc) : Call("click", t, <<>>, click(World, t))
DblClick == \E t \in Targets(doc) : Call("dblClick", t, <<>>, dblClick(World, t))
TripleClick == \E t \in Targets(doc) : Call("tripleClick", t, <<>>, tripleClick(World, t))
RightClick == \E t \in Targets(doc) : Call("rightClick", t, <<>>, rightClick(World, t))
Hover == \E t \in Targets(doc) : Call("hover", t, <<>>, hover(World, t))
Unhover == \E t \in Targets(doc) : Call("unhover", t, <<>>, unhover(World, t))
Focus == \E t \in Targets(doc) : Call("focus", t, <<>>, focus(World, t))
Blur == \E t \in Targets(doc) : Call("blur", t, <<>>, blur(World, t))

\* Pointer sequences: a press on one element released without a target of
\* its own, and a touch sequence that moves on to the next element; one
\* sequence starts with a step that has no target.
PointerSequences(d) ==
    UNION { { << PointerStep(t, "down", "mouse"), PointerStep(0, "up", "mouse") >>,
              << PointerStep(IF t = 2 THEN 0 ELSE t, "move", "touch"),
                 PointerStep(IF t < Len(d) THEN t + 1 ELSE 2, "cancel", "touch"),
                 PointerStep(0, "leave", "mouse") >> }
            : t \in Targets(d) }

Pointer == \E steps \in PointerSequences(doc) :
              Call("pointer", steps[1].target, steps, pointer(World, steps))

\* The caller's await returns: the call and its events are in the past.
Return ==
    /\ call # NoCall
    /\ call' = NoCall
    /\ log' = <<>>
    /\ UNCHANGED <<doc, els, active, env, tasks, screen, fixtures, app>>

Init == InitWith({FormDoc, RadioDoc})

Next ==
    \/ Click
    \/ DblClick
    \/ TripleClick
    \/ RightClick
    \/ Hover
    \/ Unhover
    \/ Focus
    \/ Blur
    \/ Pointer
    \/ Return

Spec == Init /\ [][Next]_vars

-----------------------------------------------------------------------------
(* Typing: type, keyboard, clear and paste on an editable element *)

EditableDivEl == [El("div", "") EXCEPT !.editable = TRUE, !.tabIndex = 0]

\* a text input, or a contenteditable div, next to a button
InputDoc == << BodyEl, TextInputEl, ButtonEl >>
EditableDoc == << BodyEl, EditableDivEl, ButtonEl >>

\* a document that has no body: no element is active until one gets focus
BodylessDoc == << DivEl, TextInputEl >>

\* no value of the typing model grows longer than this
MaxLen == 3

Braced(name) == <<"{">> \o name \o <<"}">>

\* The pieces texts are made of: literal characters, an escaped and a lone
\* brace, and braced names in lower and in mixed case.
Pieces ==
    { <<"a">>, <<"\\", "{">>, <<"{">>,
      Braced(N_space), Braced(K_Backspace), Braced(N_delete),
      Braced(N_tab), Braced(N_shift_tab), Braced(K_Enter),
      Braced(<<"f", "o", "o">>) }

T_ab_backspace_c == <<"a", "b">> \o Braced(N_backspace) \o <<"c">>
T_Hi == <<"H", "i">>

\* The texts typed: nothing, the two texts of the examples, every piece on
\* its own, and texts that delete past the start of the value, type on after
\* the focus has moved, and name a key that does not exist.
Texts ==
    {<<>>, T_ab_backspace_c, T_Hi} \cup Pieces \cup
    { Braced(N_space) \o Braced(N_delete) \o Braced(K_Backspace) \o <<"a">>,
      <<"a">> \o Braced(N_tab) \o <<"{">>,
      Braced(N_shift_tab) \o Braced(N_backspace),
      Braced(<<"a">>) \o Braced(N_space) }

\* the characters a text can add to a value: one for each token that is a
\* literal character or {space}
Growth ==
    [text \in Texts |->
        Cardinality({i \in 1..Len(parseText(text)) :
                        \/ parseText(text)[i].kind = "char"
                        \/ parseText(text)[i].value = N_space})]

Fits(target, text) == Len(els[target].value) + Growth[text] <= MaxLen

Type == /\ call = NoCall
        /\ \E t \in Targets(doc), text \in Texts :
              /\ Fits(t, text)
              /\ Call("type", t, text, type(World, t, text))

Keyboard == /\ call = NoCall
            /\ \E text \in Texts :
                  /\ active # Null => Fits(active, text)
                  /\ Call("keyboard", active, text, keyboard(World, text))

Clear == \E t \in Targets(doc) : Call("clear", t, <<>>, clear(World, t))

Paste == \E t \in Targets(doc), text \in {<<"a">>, <<"{", "b">>} :
             /\ Len(els[t].value) + Len(text) <= MaxLen
             /\ Call("paste", t, text, paste(World, t, text))

NativeEnv == [PointerEvent |-> TRUE, activation |-> TRUE]

InitType == InitWith({InputDoc, EditableDoc, BodylessDoc}) /\ env = NativeEnv

NextType ==
    \/ Type
    \/ Keyboard
    \/ Clear
    \/ Paste
    \/ Return

SpecType == InitType /\ [][NextType]_vars

-----------------------------------------------------------------------------
(* Tabbing: tab, focus and blur over every small document *)

TabDivEl == [El("div", "") EXCEPT !.tabIndex = 0]

\* a document has at most this many elements after its body
MaxTabEls == 3

RECURSIVE DocsOfLen(_)
DocsOfLen(k) ==
    IF k = 0 THEN {<<BodyEl>>}
    ELSE {Append(d, e) : d \in DocsOfLen(k - 1),
                         e \in {ButtonEl, TextInputEl, DivEl, TabDivEl}}

TabDocs == UNION {DocsOfLen(k) : k \in 1..MaxTabEls}

Tab == \E shift \in BOOLEAN : Call("tab", active, shift, tab(World, shift))

InitTab == InitWith(TabDocs) /\ env = NativeEnv

NextTab ==
    \/ Tab
    \/ Focus
    \/ Blur
    \/ Return

SpecTab == InitTab /\ [][NextTab]_vars

-----------------------------------------------------------------------------
(* Selecting: selectOptions, deselectOptions and clicks on options *)

\* A select with three options.  The first and the third share the value "a";
\* the first has the text "b", which is the value of the second.
SelectDoc(multiple) ==
    << BodyEl, SelectEl(multiple),
       OptionEl(2, <<"a">>, <<"b">>),
       OptionEl(2, <<"b">>, <<"a">>),
       OptionEl(2, <<"a">>, <<"c">>) >>

\* a single select with one option, and two options outside any select
LooseOptionDoc ==
    << BodyEl, SelectEl(FALSE),
       OptionEl(2, <<"a">>, <<"b">>),
       OptionEl(0, <<"b">>, <<"a">>),
       OptionEl(0, <<"a">>, <<"c">>) >>

\* a call names at most this many values
MaxValues == 2

Items ==
    {StringItem(v) : v \in {<<"a">>, <<"b">>, <<"c">>, <<"x">>, <<"y">>}}
        \cup {OptionItem(o) : o \in 3..5}

RECURSIVE ItemLists(_)
ItemLists(k) ==
    IF k = 0 THEN {<<>>}
    ELSE ItemLists(k - 1) \cup {Append(l, i) : l \in ItemLists(k - 1), i \in Items}

SelectOptions == \E values \in ItemLists(MaxValues) :
                    Call("selectOptions", 2, values, selectOptions(World, 2, values))

DeselectOptions == \E values \in ItemLists(MaxValues) :
                      Call("deselectOptions", 2, values, deselectOptions(World, 2, values))

\* A single select displays its first option as selected; the options of a
\* multiple select start in any combination.
InitSelect ==
    /\ doc \in {SelectDoc(FALSE), SelectDoc(TRUE), LooseOptionDoc}
    /\ \E D \in SUBSET (2..5), S \in SUBSET (3..5) :
          /\ Cardinality(D) <= MaxDisabled
          /\ IF doc[2].multiple THEN TRUE ELSE S = {3}
          /\ els = [e \in 1..5 |-> ElState(e \in D, FALSE, e \in S, <<>>)]
    /\ active = Body
    /\ env = NativeEnv
    /\ log = <<>>
    /\ call = NoCall
    /\ tasks = <<>>
    /\ screen = InitialScreen(Null)
    /\ fixtures = NoFixtures
    /\ app = NoApp

NextSelect ==
    \/ SelectOptions
    \/ DeselectOptions
    \/ Click
    \/ Return

SpecSelect == InitSelect /\ [][NextSelect]_vars

-----------------------------------------------------------------------------
(* Uploading: upload on a file input and on other elements *)

FileInputEl == [El("input", "file") EXCEPT !.tabIndex = 0]

UploadDoc == << BodyEl, FileInputEl, TextInputEl, ButtonEl >>

\* no list of files handed to upload is longer than this
MaxFiles == 2

\* The lists of files upload is called with; a single file is the list of it
\* (line 606).
FileLists ==
    UNION {[1..n -> {"f", "g"}] : n \in 0..MaxFiles}

Upload == \E t \in Targets(doc), files \in FileLists :
              Call("upload", t, files, upload(World, t, files))

InitUpload == InitWith({UploadDoc}) /\ env = NativeEnv

NextUpload ==
    \/ Upload
    \/ Return

SpecUpload == InitUpload /\ [][NextUpload]_vars

-----------------------------------------------------------------------------
(* Tokenizing: parseText on every short text *)

\* the characters of the texts: a lower-case and an upper-case letter, the
\* two braces and the backslash
ParseAlphabet == {"x", "B", "{", "}", "\\"}

\* no text handed to the tokenizer is longer than this
MaxText == 4

ParseTexts == UNION {[1..n -> ParseAlphabet] : n \in 0..MaxText}

\* parseText(text): `call.arg` is the text, `log` holds the tokens returned
ParseText ==
    /\ call = NoCall
    /\ \E text \in ParseTexts :
          /\ call' = [NoCall EXCEPT !.op = "parseText", !.arg = text]
          /\ log' = parseText(text)
    /\ UNCHANGED <<doc, els, active, env, tasks, screen, fixtures, app>>

InitParse == InitWith({InputDoc}) /\ env = NativeEnv

NextParse ==
    \/ ParseText
    \/ Return

SpecParse == InitParse /\ [][NextParse]_vars

-----------------------------------------------------------------------------
(* Screen: setScreenElement, resetScreenElement and accesses to `screen` *)

\* two elements that can be the body of the document, and a container
ScreenDoc == << BodyEl, BodyEl, DivEl >>

\* the elements that are document.body at one time or another, or Null
Bodies == {Null} \cup {e \in 1..Len(doc) : doc[e].tag = "body"}

\* no more calls of setScreenElement and resetScreenElement than this are made
MaxCalls == 4

NoDocument == [name |-> "No document available", item |-> <<>>]

\* screen.<query> (lines 29-41): the Proxy asks getQueries() for the table and
\* hands out its function.  `call.target` is the element the table it used is
\* bound to, `call.arg` the element resolveElement gave.
ScreenGet ==
    /\ screen' = getQueries(screen)
    /\ call' = [NoCall EXCEPT !.op = "screen",
                              !.target = IF resolveElement(screen) = Null THEN Null
                                         ELSE getQueries(screen).cachedQueries.element,
                              !.arg = resolveElement(screen),
                              !.err = IF resolveElement(screen) = Null
                                      THEN NoDocument ELSE NoErr]
    /\ UNCHANGED <<doc, els, active, env, log, tasks, fixtures, app>>

\* `log` holds the calls of setScreenElement and resetScreenElement, in order
SetScreenElement ==
    /\ Len(log) < MaxCalls
    /\ \E e \in 1..Len(doc) :
          /\ screen' = setScreenElement(screen, e)
          /\ log' = Append(log, [op |-> "set", element |-> e])
    /\ call' = NoCall
    /\ UNCHANGED <<doc, els, active, env, tasks, fixtures, app>>

ResetScreenElement ==
    /\ Len(log) < MaxCalls
    /\ screen' = resetScreenElement(screen)
    /\ log' = Append(log, [op |-> "reset", element |-> Null])
    /\ call' = NoCall
    /\ UNCHANGED <<doc, els, active, env, tasks, fixtures, app>>

\* the test replaces or removes the body of the document
BodyChanges ==
    /\ \E b \in Bodies \ {screen.body} : screen' = [screen EXCEPT !.body = b]
    /\ call' = NoCall
    /\ UNCHANGED <<doc, els, active, env, log, tasks, fixtures, app>>

InitScreen ==
    /\ doc = ScreenDoc
    /\ els \in InitialStates(doc)
    /\ active = Null
    /\ env = NativeEnv
    /\ log = <<>>
    /\ call = NoCall
    /\ tasks = <<>>
    /\ screen \in {InitialScreen(b) : b \in Bodies}
    /\ fixtures = NoFixtures
    /\ app = NoApp

NextScreen ==
    \/ ScreenGet
    \/ SetScreenElement
    \/ ResetScreenElement
    \/ BodyChanges

SpecScreen == InitScreen /\ [][NextScreen]_vars

-----------------------------------------------------------------------------
(* Rendering: render, unmount and cleanup *)

\* no more fixtures than this are rendered
MaxFixtures == 3

\* the test host the fixture numbered k creates: an element of its own
testHost(k) == Len(doc) + k

\* render (part_002 lines 98-194) with its options baseElement and attachTo,
\* Null when not given: the fixture is created, resolvedBase is worked out
\* (lines 131-135), screen is set to it and the fixture is added to the
\* mounted ones (lines 139-140).
Render ==
    /\ Len(fixtures.base) < MaxFixtures
    /\ \E baseElement \in 0..Len(doc), attachTo \in 0..Len(doc) :
         \E resolvedBase \in
               {IF baseElement # Null THEN baseElement
                ELSE IF attachTo # Null THEN attachTo
                ELSE IF screen.body # Null THEN screen.body
                ELSE testHost(Len(fixtures.base) + 1)} :
            /\ screen' = setScreenElement(screen, resolvedBase)
            /\ fixtures' = [base |-> Append(fixtures.base, resolvedBase),
                            mounted |-> fixtures.mounted \cup {Len(fixtures.base) + 1}]
            /\ call' = [NoCall EXCEPT !.op = "render", !.target = resolvedBase]
    /\ UNCHANGED <<doc, els, active, env, log, tasks, app>>

\* result.unmount() of the fixture numbered k (lines 168-174), mounted or not
Unmount ==
    /\ \E k \in 1..Len(fixtures.base) :
          /\ fixtures' = [fixtures EXCEPT !.mounted = @ \ {k}]
          /\ screen' = IF screen.currentElement = fixtures.base[k]
                       THEN resetScreenElement(screen) ELSE screen
          /\ call' = [NoCall EXCEPT !.op = "unmount", !.target = k]
    /\ UNCHANGED <<doc, els, active, env, log, tasks, app>>

\* cleanup() (lines 215-222)
Cleanup ==
    /\ fixtures' = [fixtures EXCEPT !.mounted = {}]
    /\ screen' = resetScreenElement(screen)
    /\ call' = [NoCall EXCEPT !.op = "cleanup"]
    /\ UNCHANGED <<doc, els, active, env, log, tasks, app>>

NextRender ==
    \/ Render
    \/ Unmount
    \/ Cleanup
    \/ ScreenGet

SpecRender == InitScreen /\ [][NextRender]_vars

-----------------------------------------------------------------------------
(* render: result.start() *)

\* The application of one fixture.  promises holds one promise for each time
\* the application was started, "pending" until that start has completed and
\* "fulfilled" from then on; manualStartPromise is Null or the number of one
\* of them (line 151).  calls holds the calls of start() made so far: the
\* promise a call awaits and whether the call is suspended on it, queued to
\* resume in a microtask, or resolved.  queue holds the queued calls in order.
\* trace holds what has happened so far, in order: the application was
\* started ("app.start") and that start completed ("started"), each with the
\* number of its promise; a call of start() reached its await ("awaits") and
\* resolved ("resolved"), each with the number of the call.
Happened(event, of) == [event |-> event, of |-> of]

\* the fixture after `await render(template, {autoStart})`: with autoStart
\* the fixture started the application and render awaited fixture.startPromise
\* (lines 127-129); without it nothing has been started
App(autoStart) ==
    [autoStart |-> autoStart,
     promises |-> IF autoStart THEN <<"fulfilled">> ELSE <<>>,
     manualStartPromise |-> Null,
     calls |-> <<>>,
     queue |-> <<>>,
     trace |-> IF autoStart THEN <<Happened("app.start", 1), Happened("started", 1)>>
               ELSE <<>>]

\* fixture.startPromise of a fixture that was created with autoStart
startPromise == 1

\* lines 158-163: fixture.au.app(...), then app.start(), which returns
\* nothing when the start completed at once (sync) and a promise otherwise;
\* manualStartPromise = Promise.resolve(app.start())
appStart(a, sync) ==
    [a EXCEPT !.promises = Append(@, IF sync THEN "fulfilled" ELSE "pending"),
              !.manualStartPromise = Len(a.promises) + 1,
              !.trace = @ \o <<Happened("app.start", Len(a.promises) + 1)>>
                          \o (IF sync THEN <<Happened("started", Len(a.promises) + 1)>>
                              ELSE <<>>)]

\* `await promise` in a new call of start(): the call resumes in a microtask
\* when the promise is fulfilled already and is suspended on it otherwise
await(a, promise) ==
    [a EXCEPT !.calls = Append(@, [awaits |-> promise,
                                   state |-> IF a.promises[promise] = "fulfilled"
                                             THEN "queued" ELSE "suspended"]),
              !.queue = IF a.promises[promise] = "fulfilled"
                        THEN Append(@, Len(a.calls) + 1) ELSE @,
              !.trace = Append(@, Happened("awaits", Len(a.calls) + 1))]

\* start that starts the application whenever it is called without autoStart
start_EveryCall(a, sync) ==
    IF a.autoStart THEN await(a, startPromise)
    ELSE await(appStart(a, sync), Len(a.promises) + 1)

\* lines 152-166: start(), up to its await
start(a, sync) ==
    IF a.autoStart THEN await(a, startPromise)
    ELSE IF a.manualStartPromise = Null
    THEN await(appStart(a, sync), Len(a.promises) + 1)
    ELSE await(a, a.manualStartPromise)

\* the calls suspended on this promise, in the order they were made
RECURSIVE suspendedOn(_, _, _)
suspendedOn(a, promise, k) ==
    IF k > Len(a.calls) THEN <<>>
    ELSE (IF a.calls[k].awaits = promise /\ a.calls[k].state = "suspended"
          THEN <<k>> ELSE <<>>) \o suspendedOn(a, promise, k + 1)

\* a promise is fulfilled: the calls suspended on it are queued to resume
fulfil(a, promise) ==
    [a EXCEPT !.promises[promise] = "fulfilled",
              !.calls = [k \in 1..Len(a.calls) |->
                            IF a.calls[k].awaits = promise /\ a.calls[k].state = "suspended"
                            THEN [a.calls[k] EXCEPT !.state = "queued"]
                            ELSE a.calls[k]],
              !.queue = @ \o suspendedOn(a, promise, 1),
              !.trace = Append(@, Happened("started", promise))]

\* the first queued call resumes after its await and returns (line 165)
resume(a) ==
    [a EXCEPT !.calls[Head(a.queue)].state = "resolved",
              !.queue = Tail(@),
              !.trace = Append(@, Happened("resolved", Head(a.queue)))]

\* no more calls of start() than this are made on the fixture
MaxStarts == 4

\* result.start() is called, whether or not earlier calls have resolved
StartCall ==
    /\ Len(app.calls) < MaxStarts
    /\ \E sync \in BOOLEAN : app' = start(app, sync)
    /\ UNCHANGED <<doc, els, active, env, log, call, tasks, screen, fixtures>>

\* a start of the application completes
AppStarted ==
    /\ \E promise \in 1..Len(app.promises) :
          /\ app.promises[promise] = "pending"
          /\ app' = fulfil(app, promise)
    /\ UNCHANGED <<doc, els, active, env, log, call, tasks, screen, fixtures>>

\* a microtask runs: a call of start() resumes and resolves
ResumeStart ==
    /\ app.queue # <<>>
    /\ app' = resume(app)
    /\ UNCHANGED <<doc, els, active, env, log, call, tasks, screen, fixtures>>

InitStart ==
    /\ doc = ScreenDoc
    /\ els \in InitialStates(doc)
    /\ active = Null
    /\ env = NativeEnv
    /\ log = <<>>
    /\ call = NoCall
    /\ tasks = <<>>
    /\ screen = InitialScreen(Null)
    /\ fixtures = NoFixtures
    /\ app \in {App(autoStart) : autoStart \in BOOLEAN}

NextStart ==
    \/ StartCall
    \/ AppStarted
    \/ ResumeStart

SpecStart == InitStart /\ [][NextStart]_vars

-----------------------------------------------------------------------------
(* Operations in flight: calls started without awaiting the one before *)

\* Every operation is an async function.  Called, it runs at once up to its
\* first `await`; there it is suspended and whatever else is ready runs; it is
\* resumed later and runs to its next `await`, and so on to its end.  An
\* `await` of a promise that is already settled resumes in a microtask, in
\* the order of suspension; an `await waitDelay(delay)` with a positive delay
\* resumes after a timer, which fires only when no microtask is left.

\* two operations are in flight at most
TaskIds == {1, 2}

Delays == {0, 1}

AsyncTexts == { <<"a">>, <<"a", "b">> }

Task(op, target, text, delay) ==
    [op |-> op, target |-> target, text |-> text, delay |-> delay,
     pc |-> 0, state |-> "running", waits |-> 0, err |-> NoErr]

\* lines 498-508: what type does before it reaches its tokens
typePrelude(w, target) ==
    Bind(w, LAMBDA x :
        IF ~isHTMLElement(target) THEN Throw(x, "Target must be an HTMLElement", <<>>)
        ELSE IF isDisabled(x, target) THEN x
        ELSE focusElement(x, target))

\* type from where it stands to its next `await waitDelay` (line 515), or to
\* its end: with no delay the whole call, with a delay the prelude first and
\* then one token each time it is resumed
typeSegment(w, tk) ==
    IF tk.delay = 0 THEN type(w, tk.target, tk.text)
    ELSE IF tk.pc = 0 THEN typePrelude(w, tk.target)
    ELSE IF tk.pc <= Len(parseText(tk.text))
         THEN typeToken(w, tk.target, parseText(tk.text)[tk.pc])
    ELSE w

\* The code an operation runs from where it stands to its next `await` or to
\* its end.  The operand of an `await` is evaluated before the suspension:
\* `await click(target)` dispatches the whole click and suspends then.
\* keyboard (lines 569-576) throws, or it is type on the element that was
\* active when it was called; once type is over, keyboard is resumed from its
\* own `await type(...)` and ends.
segment(w, tk) ==
    CASE tk.op = "click" -> click(w, tk.target)
      [] tk.op = "dblClick" ->
            IF tk.pc < 2 THEN click(w, tk.target)
            ELSE fireMouse(w, tk.target, "dblclick", 0, 0)
      [] tk.op = "tripleClick" ->
            IF tk.pc < 2 THEN click(w, tk.target)
            ELSE IF tk.pc = 2
                 THEN click(fireMouse(w, tk.target, "dblclick", 0, 0), tk.target)
            ELSE w
      [] tk.op = "rightClick" -> rightClick(w, tk.target)
      [] tk.op = "hover" -> hover(w, tk.target)
      [] tk.op = "clear" -> clear(w, tk.target)
      [] tk.op = "paste" -> paste(w, tk.target, tk.text)
      [] tk.op = "tab" -> tab(w, FALSE)
      [] tk.op = "type" -> typeSegment(w, tk)
      [] tk.op = "keyboard" ->
            IF tk.state = "ending" THEN w
            ELSE IF tk.target = Null
            THEN Throw(w, "No active element to send keyboard input to", <<>>)
            ELSE typeSegment(w, tk)

\* type after a segment: "timer" if it stands at the `await waitDelay` before
\* its next token, "end" if it has returned (lines 501-503 and 567) or thrown
typeState(w, r, tk) ==
    IF Failed(r) \/ tk.delay = 0 \/ (tk.pc = 0 /\ isDisabled(w, tk.target)) THEN "end"
    ELSE IF tk.pc < Len(parseText(tk.text)) THEN "timer"
    ELSE "end"

\* where an operation stands after a segment that started in world `w` and
\* left world `r`: suspended at an await ("micro", "timer") or at its end
stateAfter(w, r, tk) ==
    CASE tk.op = "dblClick" -> IF tk.pc < 2 THEN "micro" ELSE "done"
      [] tk.op = "tripleClick" -> IF tk.pc < 3 THEN "micro" ELSE "done"
      [] tk.op = "type" ->
            IF typeState(w, r, tk) = "timer" THEN "timer" ELSE "done"
      [] tk.op = "keyboard" ->
            IF tk.state = "ending" \/ (tk.target = Null) THEN "done"
            ELSE IF typeState(w, r, tk) = "timer" THEN "timer"
            ELSE "ending"
      [] OTHER -> "done"

\* the events of one segment, each with the operation and segment it is of
Tagged(events, id, pc) ==
    [i \in 1..Len(events) |-> [task |-> id, pc |-> pc, ev |-> events[i]]]

\* The operation `id`, standing as `tk`, runs one segment; `queue` holds the
\* operations that wait for a microtask.
Run(id, tk, run, queue) ==
    \E r \in {segment(World, tk)} :
      \E st \in {stateAfter(World, r, tk)} :
        /\ els' = r.els
        /\ active' = r.active
        /\ log' = log \o Tagged(r.log, id, tk.pc)
        /\ tasks' =
              [run |-> [i \in 1..Len(run) |->
                          IF i # id THEN run[i]
                          ELSE [tk EXCEPT !.pc = @ + 1,
                                          !.state = st,
                                          !.waits = IF st = "timer" THEN @ + 1 ELSE @,
                                          !.err = IF Failed(r) THEN r.err ELSE @]],
               queue |-> IF st \in {"micro", "ending"}
                         THEN Append(queue, id) ELSE queue]
        /\ UNCHANGED <<doc, env, call, screen, fixtures, app>>

\* A caller starts an operation: it runs at once up to its first await.
Start(op, target, text, delay) ==
    /\ Len(tasks.run) < Cardinality(TaskIds)
    /\ Run(Len(tasks.run) + 1, Task(op, target, text, delay),
           Append(tasks.run, Task(op, target, text, delay)), tasks.queue)

StartOp ==
    \/ \E op \in {"click", "dblClick", "tripleClick", "rightClick", "hover", "clear"} :
         \E t \in Targets(doc) : Start(op, t, <<>>, 0)
    \/ Start("tab", 0, <<>>, 0)
    \/ \E t \in Targets(doc), text \in AsyncTexts : Start("paste", t, text, 0)
    \/ \E t \in Targets(doc), text \in AsyncTexts, d \in Delays : Start("type", t, text, d)
    \/ \E text \in AsyncTexts, d \in Delays : Start("keyboard", active, text, d)

\* the first operation of the microtask queue is resumed
RunMicrotask ==
    /\ tasks.queue # <<>>
    /\ Run(Head(tasks.queue), tasks.run[Head(tasks.queue)], tasks.run, Tail(tasks.queue))

\* The timer of a suspended operation fires, which happens only when no
\* microtask is left; the operation is resumed in a microtask.
TimerFires ==
    /\ tasks.queue = <<>>
    /\ \E id \in 1..Len(tasks.run) :
          /\ tasks.run[id].state = "timer"
          /\ tasks' = [run |-> [tasks.run EXCEPT ![id].state = "micro"], queue |-> <<id>>]
    /\ UNCHANGED <<doc, els, active, env, log, call, screen, fixtures, app>>

InitAsync ==
    /\ doc = InputDoc
    /\ els \in InitialStates(doc)
    /\ active = Body
    /\ env = NativeEnv
    /\ log = <<>>
    /\ call = NoCall
    /\ tasks = [run |-> <<>>, queue |-> <<>>]
    /\ screen = InitialScreen(Null)
    /\ fixtures = NoFixtures
    /\ app = NoApp

NextAsync ==
    \/ StartOp
    \/ RunMicrotask
    \/ TimerFires

SpecAsync == InitAsync /\ [][NextAsync]_vars

-----------------------------------------------------------------------------
(* Reading the log of the most recent call *)

Pre == [els |-> call.pre.els, active |-> call.pre.active, log |-> <<>>, err |-> NoErr]
Post == [els |-> els, active |-> active, log |-> log, err |-> call.err]

\* positions of the log that hold an event of this type on this element
EventsOf(e, kind) == {i \in 1..Len(log) : log[i].target = e /\ log[i].type = kind}

\* the events the sequencer itself dispatched (not the DOM's own), in order
Dispatched == SelectSeq(log, LAMBDA ev : ~ev.native)

\* an event reduced to the fields the click sequence fixes
Shape(ev) == <<ev.type, ev.target, ev.buttons, ev.button>>
Shapes(seq) == [i \in 1..Len(seq) |-> Shape(seq[i])]

\* position of the first event of this type in a sequence, 0 if there is none
FirstOf(seq, kind) ==
    LET hits == {i \in 1..Len(seq) : seq[i].type = kind}
    IN  IF hits = {} THEN 0 ELSE CHOOSE i \in hits : \A j \in hits : i <= j

\* the dispatched events of a click up to and including its click event
UpToClick == SubSeq(Dispatched, 1, FirstOf(Dispatched, "click"))

\* the nine events of the click sequence, without the focus step
FullClickShapes(t) ==
    << <<"pointerover", t, 0, 0>>, <<"pointerenter", t, 0, 0>>,
       <<"mouseover", t, 0, 0>>, <<"mouseenter", t, 0, 0>>,
       <<"pointerdown", t, 1, 0>>, <<"mousedown", t, 1, 0>>,
       <<"pointerup", t, 0, 0>>, <<"mouseup", t, 0, 0>>, <<"click", t, 0, 0>> >>

IsPointerShape(sh) ==
    sh[1] \in {"pointerover", "pointerenter", "pointerdown", "pointerup"}

\* the focus step sits between mousedown and pointerup: every event up to
\* mousedown sees the old active element, every later one the new one
FocusStepAt(seq, before, after) ==
    \A i \in 1..Len(seq) :
        seq[i].active = IF seq[i].type \in {"pointerup", "mouseup", "click"}
                        THEN after ELSE before

ClickOnEnabledPlain ==
    /\ call.op = "click"
    /\ ~isDisabled(Pre, call.target)
    /\ ~isLabelElement(call.target)

\* what C1 says of one click, given the events it expects
ClickSequenceIs(expected) ==
    ClickOnEnabledPlain =>
        /\ Shapes(UpToClick) = expected
        /\ IF isFocusable(Pre, call.target)
           THEN FocusStepAt(UpToClick, call.pre.active, call.target)
           ELSE FocusStepAt(UpToClick, call.pre.active, call.pre.active)
                /\ active = call.pre.active

\* C1 as stated: a click on an enabled non-label element dispatches, on the
\* target and with nothing in between, pointerover, pointerenter, mouseover,
\* mouseenter, pointerdown(buttons=1), mousedown(buttons=1,button=0), the
\* focus step if the target is focusable, pointerup, mouseup, click; a
\* non-focusable target gets the same events and the active element stays.
C1_ClickSequence_AsStated == ClickSequenceIs(FullClickShapes(call.target))

\* C1 (amended): the sequence of C1 is dispatched where the environment has a
\* PointerEvent constructor; where it has none, the same sequence is
\* dispatched without its four pointer events.
C1_ClickSequence ==
    ClickSequenceIs(IF env.PointerEvent THEN FullClickShapes(call.target)
                    ELSE SelectSeq(FullClickShapes(call.target),
                                   LAMBDA sh : ~IsPointerShape(sh)))

\* a click that moved focus onto a focusable target, with pointer events
C1_Witness ==
    /\ ClickOnEnabledPlain
    /\ isFocusable(Pre, call.target)
    /\ call.pre.active # call.target
    /\ active = call.target
    /\ env.PointerEvent
    /\ Len(UpToClick) = 9

\* the operations of the sequencer that take a target
TargetOps ==
    {"click", "dblClick", "tripleClick", "rightClick", "hover", "unhover", "type",
     "clear", "paste", "upload", "selectOptions", "deselectOptions", "pointer"}

\* a call whose target, and for pointer every step's target, is one disabled element
CallOnDisabled ==
    /\ call.op \in TargetOps
    /\ call.target # 0
    /\ isDisabled(Pre, call.target)
    /\ call.op = "pointer" =>
           \A i \in 1..Len(call.arg) : call.arg[i].target \in {0, call.target}

\* C2 as stated: an operation on a disabled target resolves without error,
\* dispatches no event at all and leaves value, checked state, selection and
\* focus unchanged.
C2_DisabledNoOp ==
    CallOnDisabled =>
        /\ call.err = NoErr
        /\ log = <<>>
        /\ els = call.pre.els
        /\ active = call.pre.active

\* C3 as stated: a click on an enabled checkbox flips its checked state and
\* results in exactly one change event on it, whether or not the DOM toggles
\* the checkbox itself when the click event is dispatched.
C3_CheckboxOneChange ==
    (/\ call.op = "click"
     /\ isInputElement(call.target)
     /\ doc[call.target].type = "checkbox"
     /\ ~isDisabled(Pre, call.target))
        => /\ els[call.target].checked = ~call.pre.els[call.target].checked
           /\ Cardinality(EventsOf(call.target, "change")) = 1

\* the radios of the named group of r that are checked
CheckedInGroup(r) == {x \in RadioGroup(r) : els[x].checked}

InputThenChange(seq, e) ==
    /\ Len(seq) = 2
    /\ seq[1].type = "input" /\ seq[1].target = e
    /\ seq[2].type = "change" /\ seq[2].target = e

\* C4: radios that share a non-empty name never have more than one checked;
\* after a click on an enabled one it is the checked one; the click dispatches
\* input then change on it when it was unchecked, and neither when it was
\* already checked.
C4_RadioGroup ==
    /\ \A r \in Ids :
          (isInputElement(r) /\ doc[r].type = "radio" /\ doc[r].name # "")
              => Cardinality(CheckedInGroup(r)) <= 1
    /\ (/\ call.op = "click"
        /\ isInputElement(call.target)
        /\ doc[call.target].type = "radio"
        /\ doc[call.target].name # ""
        /\ ~isDisabled(Pre, call.target))
           => LET r == call.target
                  after == SelectSeq(log, LAMBDA ev : ev.type \in {"input", "change"})
              IN  /\ CheckedInGroup(r) = {r}
                  /\ IF call.pre.els[r].checked THEN after = <<>>
                     ELSE InputThenChange(after, r)

\* a click on an unchecked radio while the other radio of its group was checked
C4_Witness ==
    /\ call.op = "click"
    /\ doc = RadioDoc
    /\ call.target = 2
    /\ ~call.pre.els[2].checked
    /\ call.pre.els[4].checked
    /\ els[2].checked
    /\ ~env.activation

\* C5: a click on a label bound to a control dispatches every event on the
\* control and none on the label, focuses the control if it is focusable, and
\* changes the control's checked state only if it is a checkbox or a radio.
C5_LabelRetarget ==
    (/\ call.op = "click"
     /\ isLabelElement(call.target)
     /\ labelControl(call.target) # 0)
        => LET control == labelControl(call.target)
           IN  /\ \A i \in 1..Len(Dispatched) : Dispatched[i].target = control
               /\ \A i \in 1..Len(log) : log[i].target # call.target
               /\ EventsOf(control, "click") # {}
               /\ isFocusable(Pre, control) => active = control
               /\ ~(isInputElement(control) /\ doc[control].type \in {"checkbox", "radio"})
                      => els[control].checked = call.pre.els[control].checked

\* a click on the label of the text input, which takes the focus
C5_Witness ==
    /\ call.op = "click"
    /\ doc = FormDoc
    /\ call.target = 7
    /\ active = 4
    /\ call.pre.active # 4
    /\ EventsOf(4, "click") # {}

-----------------------------------------------------------------------------
(* Typing *)

\* a type call, direct or through keyboard, on an enabled editable element
TypeOnEditable ==
    /\ call.op \in {"type", "keyboard"}
    /\ call.target # 0
    /\ isEditable(call.target)
    /\ ~isDisabled(Pre, call.target)

\* the value one token leaves behind, as the claim states it
ValueAfter(v, token) ==
    IF token.kind = "char" THEN v \o token.value
    ELSE IF token.value = N_space THEN Append(v, " ")
    ELSE IF token.value \in {N_backspace, N_delete}
    THEN (IF v = <<>> THEN v ELSE SubSeq(v, 1, Len(v) - 1))
    ELSE v

\* the left fold of ValueAfter over the tokens from the i-th on
RECURSIVE FoldValue(_, _, _)
FoldValue(tokens, i, v) ==
    IF i > Len(tokens) THEN v
    ELSE FoldValue(tokens, i + 1, ValueAfter(v, tokens[i]))

\* a text of literal characters only: no brace, no backslash
IsLiteral(text) == \A i \in 1..Len(text) : text[i] \notin {"{", "}", "\\"}

RECURSIVE InputCount(_, _, _)
InputCount(tokens, i, v) ==
    IF i > Len(tokens) THEN 0
    ELSE (IF ValueAfter(v, tokens[i]) # v THEN 1 ELSE 0)
             + InputCount(tokens, i + 1, ValueAfter(v, tokens[i]))

EventsOfType(kind) == {i \in 1..Len(log) : log[i].type = kind}

\* C7: a type call dispatches one input event for each token that changes
\* the value and none for any other token, and never a change event; typing
\* "Hi" gives 2 input events.
C7_TypeInputEvents ==
    TypeOnEditable =>
        /\ Cardinality(EventsOfType("input"))
               = InputCount(parseText(call.arg), 1, call.pre.els[call.target].value)
        /\ \A i \in EventsOfType("input") : log[i].target = call.target
        /\ EventsOfType("change") = {}
        /\ call.arg = T_Hi => Cardinality(EventsOfType("input")) = 2

\* {space}{delete}{Backspace}a typed into an empty element: the backspace
\* finds nothing to delete, the other three tokens change the value
C7_Witness ==
    /\ TypeOnEditable
    /\ call.arg = Braced(N_space) \o Braced(N_delete) \o Braced(K_Backspace) \o <<"a">>
    /\ call.pre.els[call.target].value = <<>>
    /\ Cardinality(EventsOfType("input")) = 3
    /\ els[call.target].value = <<"a">>

-----------------------------------------------------------------------------
(* Tabbing *)

\* tab() called k times in a row
RECURSIVE TabTimes(_, _, _)
TabTimes(w, shift, k) ==
    IF k = 0 THEN w ELSE TabTimes(tab(w, shift), shift, k - 1)

\* k tab() calls from the current state, k = 1..n, visit each of the n
\* focusable elements once and end where they started
FullCircle(shift) ==
    LET F == getFocusableElements(World)
        n == Len(F)
        visit == [k \in 1..n |-> TabTimes(World, shift, k).active]
    IN  (n >= 1 /\ seqIndexOf(F, active) # 0) =>
            /\ {visit[k] : k \in 1..n} = {F[j] : j \in 1..n}
            /\ visit[n] = active

\* C8: with n >= 1 focusable elements and focus on the one at index i, tab()
\* moves focus to index (i+1) mod n and tab({shift}) to (i-1+n) mod n; n
\* tab() calls visit every focusable element once and return to the start; a
\* disabled element never has focus; with no focusable element tab() leaves
\* focus and elements as they were.
C8_TabCycle ==
    /\ active \in Ids => ~isDisabled(World, active)
    /\ FullCircle(FALSE)
    /\ FullCircle(TRUE)
    /\ call.op = "tab" =>
           LET F == getFocusableElements(Pre)
               n == Len(F)
               i == seqIndexOf(F, call.pre.active) - 1
           IN  /\ n = 0 => (active = call.pre.active /\ els = call.pre.els)
               /\ (n >= 1 /\ i >= 0) =>
                      active = F[(IF call.arg THEN (i - 1 + n) % n ELSE (i + 1) % n) + 1]

\* tab() from the last of two focusable elements wraps to the first, in a
\* document that also holds a disabled element
C8_Witness ==
    /\ call.op = "tab"
    /\ ~call.arg
    /\ Len(getFocusableElements(Pre)) = 2
    /\ call.pre.active = getFocusableElements(Pre)[2]
    /\ active = getFocusableElements(Pre)[1]
    /\ \E e \in Ids : isDisabled(Pre, e)

-----------------------------------------------------------------------------
(* Selecting *)

SelectCall == call.op \in {"selectOptions", "deselectOptions"}

\* a requested string that is neither the value nor the text of an option
Unmatched(item) ==
    /\ item.opt = 0
    /\ \A o \in OptionsOf(call.target) :
          doc[o].value # item.str /\ doc[o].text # item.str

UnmatchedAt == {i \in 1..Len(call.arg) : Unmatched(call.arg[i])}

\* the call failed with the lookup error that names the i-th requested value
NamesValue(i) ==
    /\ call.err.name = "Option not found"
    /\ call.err.item = call.arg[i].str

FirstIn(S) == CHOOSE o \in S : \A p \in S : o <= p

\* A successful selectOptions of one string: an option whose value is the
\* string is preferred to an option that only has it as its text.
ValueBeforeText ==
    (/\ call.op = "selectOptions"
     /\ call.err = NoErr
     /\ ~isDisabled(Pre, call.target)
     /\ Len(call.arg) = 1
     /\ call.arg[1].opt = 0)
        => LET v == call.arg[1].str
               byValue == {o \in OptionsOf(call.target) : doc[o].value = v}
               byText == {o \in OptionsOf(call.target) : doc[o].text = v}
               chosen == IF byValue # {} THEN FirstIn(byValue) ELSE FirstIn(byText)
           IN  /\ els[chosen].selected
               /\ \A o \in OptionsOf(call.target) \ {chosen} :
                      els[o].selected =
                          (doc[call.target].multiple /\ call.pre.els[o].selected)

\* C9 as stated: when a requested value of selectOptions or deselectOptions
\* matches no option by value or text, the call fails with an error naming
\* such a value, no selected flag has changed and no event was dispatched;
\* values are matched before texts.
C9_UnmatchedValue_AsStated ==
    /\ (SelectCall /\ UnmatchedAt # {}) =>
           /\ \E i \in UnmatchedAt : NamesValue(i)
           /\ els = call.pre.els
           /\ log = <<>>
    /\ ValueBeforeText

\* C9 (amended): on an enabled select, and for deselectOptions a multiple
\* one, a call with a requested value that matches no option fails with an
\* error naming the first such value, with no selected flag changed and no
\* event dispatched; values are matched before texts.
C9_UnmatchedValue ==
    /\ (/\ SelectCall
        /\ UnmatchedAt # {}
        /\ ~isDisabled(Pre, call.target)
        /\ call.op = "deselectOptions" => doc[call.target].multiple) =>
           /\ NamesValue(FirstIn(UnmatchedAt))
           /\ \A i \in UnmatchedAt : i # FirstIn(UnmatchedAt) =>
                  (call.arg[i].str # call.arg[FirstIn(UnmatchedAt)].str => ~NamesValue(i))
           /\ els = call.pre.els
           /\ log = <<>>
    /\ ValueBeforeText

\* selectOptions(["a", "x"]) on an enabled select: "a" matches, "x" does not
C9_Witness ==
    /\ call.op = "selectOptions"
    /\ ~isDisabled(Pre, call.target)
    /\ call.arg = <<StringItem(<<"a">>), StringItem(<<"x">>)>>
    /\ call.err.item = <<"x">>
    /\ els = call.pre.els

SelectedOptions(state) == {o \in OptionsOf(2) : state[o].selected}

\* the options a successful call resolved its values to
ResolvedOptions == {resolveOption(call.target, call.arg[i]) : i \in 1..Len(call.arg)}

-----------------------------------------------------------------------------
(* Errors *)

\* the most recent call failed with an error
CallFailed == call.op # "" /\ call.err # NoErr

\* C11 as stated: a call that fails with an error has made no DOM state
\* mutation before failing: value, checked and selected flags, files and the
\* focused element are as they were when the call started.
C11_NoMutationOnError ==
    CallFailed => (els = call.pre.els /\ active = call.pre.active)

-----------------------------------------------------------------------------
(* Operations in flight *)

\* the positions in the log of the events of operation `id`
EventsAt(id) == {i \in 1..Len(log) : log[i].task = id}

\* nothing of another operation lies between the events at these positions
Unbroken(at) ==
    \A i \in at, j \in at : \A k \in i..j : k \in at

\* the operation waits between its tokens: type or keyboard with a delay
Delayed(tk) == tk.op \in {"type", "keyboard"} /\ tk.delay > 0

\* a delayed type or keyboard that went through all its tokens
TypedThrough(tk) ==
    /\ Delayed(tk)
    /\ tk.state = "done"
    /\ tk.err = NoErr
    /\ tk.pc > 0

\* the events of operation `id` of one segment
SegmentAt(id, pc) == {i \in EventsAt(id) : log[i].pc = pc}

\* C12 as stated: an operation yields control only at the inter-keystroke
\* delay of type and keyboard.  The events of every other operation lie in
\* the log with no event of another operation between its first and its
\* last; a type with a positive delay over k tokens is suspended exactly k
\* times, and the events of each of its tokens lie together.
C12_YieldsOnlyAtDelay ==
    \A id \in 1..Len(tasks.run) :
        /\ ~Delayed(tasks.run[id]) => Unbroken(EventsAt(id))
        /\ Delayed(tasks.run[id]) =>
               \A pc \in 0..tasks.run[id].pc : Unbroken(SegmentAt(id, pc))
        /\ (TypedThrough(tasks.run[id]) /\ ~isDisabled(World, tasks.run[id].target)) =>
               tasks.run[id].waits = Len(parseText(tasks.run[id].text))

\* the part of C12 that holds: everything but dblClick and tripleClick
C12_ButMultiClicks ==
    \A id \in 1..Len(tasks.run) :
        /\ (~Delayed(tasks.run[id]) /\ tasks.run[id].op \notin {"dblClick", "tripleClick"})
               => Unbroken(EventsAt(id))
        /\ (TypedThrough(tasks.run[id]) /\ ~isDisabled(World, tasks.run[id].target)) =>
               tasks.run[id].waits = Len(parseText(tasks.run[id].text))

\* a dblClick whose two clicks have another operation's events between them
C12_BrokenDblClick ==
    \E id \in 1..Len(tasks.run) :
        /\ tasks.run[id].op = "dblClick"
        /\ tasks.run[id].state = "done"
        /\ ~Unbroken(EventsAt(id))

-----------------------------------------------------------------------------
(* rightClick, dblClick, tripleClick *)

RightClickOnEnabled == call.op = "rightClick" /\ ~isDisabled(Pre, call.target)

\* the types of the events of a sequence, in order
Types(seq) == [i \in 1..Len(seq) |-> seq[i].type]

\* what C13 says of one rightClick, given the event types it expects: these
\* events on the target and no others but the DOM's own focus events, no
\* click, and the focus step between mousedown and pointerup
RightClickSequenceIs(expected) ==
    RightClickOnEnabled =>
        /\ Types(Dispatched) = expected
        /\ \A i \in 1..Len(log) : log[i].type # "click"
        /\ \A i \in 1..Len(Dispatched) : Dispatched[i].target = call.target
        /\ \A i \in 1..Len(Dispatched) :
              Dispatched[i].active =
                  IF Dispatched[i].type \in {"pointerdown", "mousedown"}
                       \/ ~isFocusable(Pre, call.target)
                  THEN call.pre.active ELSE call.target
        /\ active = (IF isFocusable(Pre, call.target) THEN call.target
                     ELSE call.pre.active)

\* C13 as stated: rightClick on an enabled target dispatches pointerdown,
\* mousedown, the focus step if the target is focusable, pointerup, mouseup,
\* contextmenu, in this order with contextmenu last, and never a click.
C13_RightClickSequence_AsStated ==
    RightClickSequenceIs(<<"pointerdown", "mousedown", "pointerup", "mouseup", "contextmenu">>)

\* C13 (amended): the sequence of C13 is dispatched where the environment has
\* a PointerEvent constructor; where it has none, pointerdown and pointerup
\* are left out.
C13_RightClickSequence ==
    RightClickSequenceIs(IF env.PointerEvent
                         THEN <<"pointerdown", "mousedown", "pointerup", "mouseup", "contextmenu">>
                         ELSE <<"mousedown", "mouseup", "contextmenu">>)

\* a rightClick that moved focus onto a focusable target, with pointer events
C13_Witness ==
    /\ RightClickOnEnabled
    /\ isFocusable(Pre, call.target)
    /\ call.pre.active # call.target
    /\ active = call.target
    /\ env.PointerEvent
    /\ Len(Dispatched) = 5

\* the events of this type that the sequencer dispatched in the call
Fired(kind) == SelectSeq(Dispatched, LAMBDA ev : ev.type = kind)

\* every event of this type of the call carries these buttons and this button
Carries(kind, buttons, button) ==
    \A i \in 1..Len(Fired(kind)) :
        Fired(kind)[i].buttons = buttons /\ Fired(kind)[i].button = button

\* C14 as stated: in rightClick, pointerdown and mousedown carry button=2 and
\* buttons=2, and pointerup and mouseup carry buttons=0 and button=2.
C14_RightClickButtons ==
    RightClickOnEnabled =>
        /\ Carries("pointerdown", 2, 2)
        /\ Carries("mousedown", 2, 2)
        /\ Carries("pointerup", 0, 2)
        /\ Carries("mouseup", 0, 2)

\* what the code gives: the two mouse events carry button=2, the two pointer
\* events are created without a button and carry the default, button=0
C14_MouseButtonsOnly ==
    RightClickOnEnabled =>
        /\ Carries("pointerdown", 2, 0)
        /\ Carries("mousedown", 2, 2)
        /\ Carries("pointerup", 0, 0)
        /\ Carries("mouseup", 0, 2)
        /\ env.PointerEvent => Len(Fired("pointerdown")) = 1 /\ Len(Fired("pointerup")) = 1
        /\ Len(Fired("mousedown")) = 1 /\ Len(Fired("mouseup")) = 1

\* the event types of one complete click sequence, as click dispatches it
ClickTypes ==
    IF env.PointerEvent
    THEN <<"pointerover", "pointerenter", "mouseover", "mouseenter", "pointerdown",
           "mousedown", "pointerup", "mouseup", "click">>
    ELSE <<"mouseover", "mouseenter", "mousedown", "mouseup", "click">>

\* the pointer and mouse events the sequencer dispatched in the call, in order
Gesture ==
    SelectSeq(Dispatched,
              LAMBDA ev : ev.type \in {"pointerover", "pointerenter", "mouseover",
                                       "mouseenter", "pointerdown", "mousedown",
                                       "pointerup", "mouseup", "click", "dblclick"})

MultiClickOnEnabled(op) == call.op = op /\ ~isDisabled(Pre, call.target)

\* C15: dblClick performs two complete click sequences and then dispatches
\* one dblclick event; tripleClick performs three complete click sequences
\* and dispatches one dblclick event, after the second sequence and before
\* the third.  The click sequences go to the element a click goes to, the
\* dblclick event to the target itself.
C15_MultiClick ==
    /\ MultiClickOnEnabled("dblClick") =>
           /\ Types(Gesture) = ClickTypes \o ClickTypes \o <<"dblclick">>
           /\ Len(Fired("dblclick")) = 1
    /\ MultiClickOnEnabled("tripleClick") =>
           /\ Types(Gesture) = ClickTypes \o ClickTypes \o <<"dblclick">> \o ClickTypes
           /\ Len(Fired("dblclick")) = 1
    /\ (MultiClickOnEnabled("dblClick") \/ MultiClickOnEnabled("tripleClick")) =>
           \A i \in 1..Len(Gesture) :
               Gesture[i].target = IF Gesture[i].type = "dblclick" THEN call.target
                                   ELSE clickTarget(call.target)

\* a tripleClick on a label that is bound to a control, with pointer events
C15_Witness ==
    /\ MultiClickOnEnabled("tripleClick")
    /\ clickTarget(call.target) # call.target
    /\ env.PointerEvent
    /\ Len(Gesture) = 28

-----------------------------------------------------------------------------
(* Uploading *)

UploadOnEnabled == call.op = "upload" /\ ~isDisabled(Pre, call.target)

\* C16: upload on an enabled element whose type is not "file" fails with an
\* error, changes no files and dispatches no event; on an enabled file input
\* the files of the input become the supplied files in the supplied order,
\* and one input event and then one change event are dispatched on it, and
\* nothing else.
C16_Upload ==
    /\ (UploadOnEnabled /\ doc[call.target].type # "file") =>
           /\ call.err # NoErr
           /\ log = <<>>
           /\ \A e \in Ids : els[e].files = call.pre.els[e].files
    /\ (UploadOnEnabled /\ doc[call.target].type = "file") =>
           /\ call.err = NoErr
           /\ els[call.target].files = call.arg
           /\ Types(log) = <<"input", "change">>
           /\ \A i \in 1..Len(log) : log[i].target = call.target
           /\ log[1].inputType = "insertReplacementText"

\* an upload of two different files to a file input that held another list
C16_Witness ==
    /\ UploadOnEnabled
    /\ doc[call.target].type = "file"
    /\ call.arg = <<"g", "f">>
    /\ call.pre.els[call.target].files = <<"f">>
    /\ Len(log) = 2

-----------------------------------------------------------------------------
(* pointer *)

\* the target of the most recent step up to step i that carries one, 0 if none
CurrentAt(steps, i) ==
    LET carrying == {j \in 1..i : steps[j].target # 0}
    IN  IF carrying = {} THEN 0
        ELSE steps[CHOOSE j \in carrying : \A k \in carrying : k <= j].target

\* the steps whose events the call dispatched, one entry for each event: a
\* pointer event where the environment has PointerEvent, and a mouse event
\* for a mouse pointer whose step type has one
RECURSIVE StepsOfEvents(_, _)
StepsOfEvents(steps, i) ==
    IF i > Len(steps) THEN <<>>
    ELSE (IF env.PointerEvent THEN <<i>> ELSE <<>>)
         \o (IF steps[i].pointerType = "mouse" /\ steps[i].type # "cancel"
             THEN <<i>> ELSE <<>>)
         \o StepsOfEvents(steps, i + 1)

\* C17: pointer fails with an error exactly when its first step carries no
\* target, and then it has dispatched no event; otherwise the events of every
\* step are dispatched on the target of the step, or if it has none, on the
\* target of the most recent earlier step that has one.
C17_PointerTarget ==
    call.op = "pointer" =>
        /\ (call.err # NoErr) <=> (call.arg[1].target = 0)
        /\ call.err # NoErr => log = <<>>
        /\ call.err = NoErr =>
               /\ Len(Dispatched) = Len(StepsOfEvents(call.arg, 1))
               /\ \A i \in 1..Len(Dispatched) :
                      Dispatched[i].target = CurrentAt(call.arg, StepsOfEvents(call.arg, 1)[i])

\* a pointer call of three steps: a target, another target, and no target,
\* whose last events went to the second target
C17_Witness ==
    /\ call.op = "pointer"
    /\ call.err = NoErr
    /\ Len(call.arg) = 3
    /\ call.arg[1].target # 0
    /\ call.arg[2].target \notin {0, call.arg[1].target}
    /\ call.arg[3].target = 0
    /\ Len(Dispatched) = 4
    /\ Dispatched[1].target = call.arg[1].target
    /\ Dispatched[4].target = call.arg[2].target

-----------------------------------------------------------------------------
(* clear, paste, keyboard *)

\* a call of this operation on an enabled editable target
OnEditable(op) ==
    /\ call.op = op
    /\ isEditable(call.target)
    /\ ~isDisabled(Pre, call.target)

\* every event the sequencer dispatched in the call went to the target while
\* the target had focus, and the target has focus still
FocusedThroughout ==
    /\ active = call.target
    /\ \A i \in 1..Len(Dispatched) :
          Dispatched[i].target = call.target /\ Dispatched[i].active = call.target

\* C18: clear on an enabled editable target focuses it, empties its value and
\* then dispatches one input(deleteContentBackward) event and one change
\* event, in this order, also when the value was empty before; the input
\* event observes the empty value.
C18_Clear ==
    OnEditable("clear") =>
        /\ call.err = NoErr
        /\ FocusedThroughout
        /\ els[call.target].value = <<>>
        /\ Types(Dispatched) = <<"input", "change">>
        /\ Dispatched[1].inputType = "deleteContentBackward"
        /\ Dispatched[1].value = <<>>

\* a clear of a value that was not empty, on a target that had no focus
C18_Witness ==
    /\ OnEditable("clear")
    /\ call.pre.els[call.target].value # <<>>
    /\ call.pre.active # call.target
    /\ Len(Dispatched) = 2

\* C19: paste on an enabled editable target with value v and text t focuses
\* it, dispatches the paste event while the value is v, then sets the value
\* to v followed by t and dispatches one input(insertFromPaste) event; it
\* dispatches no change event.
C19_Paste ==
    OnEditable("paste") =>
        /\ call.err = NoErr
        /\ FocusedThroughout
        /\ Types(Dispatched) = <<"paste", "input">>
        /\ Dispatched[1].value = call.pre.els[call.target].value
        /\ Dispatched[1].data = call.arg
        /\ Dispatched[2].inputType = "insertFromPaste"
        /\ Dispatched[2].value = call.pre.els[call.target].value \o call.arg
        /\ els[call.target].value = call.pre.els[call.target].value \o call.arg
        /\ EventsOfType("change") = {}

\* a paste of a text with a brace into a value that was not empty
C19_Witness ==
    /\ OnEditable("paste")
    /\ call.pre.els[call.target].value # <<>>
    /\ call.arg = <<"{", "b">>
    /\ call.pre.active # call.target
    /\ Len(Dispatched) = 2

\* C20: keyboard fails with an error and dispatches no event when the
\* document has no active element; otherwise its events, in order, and the
\* state it leaves behind are those of type on the element that was active
\* when keyboard was called.
C20_Keyboard ==
    call.op = "keyboard" =>
        IF call.pre.active = Null
        THEN /\ call.err # NoErr
             /\ log = <<>>
             /\ els = call.pre.els
             /\ active = Null
        ELSE Post = type(Pre, call.pre.active, call.arg)

\* a keyboard call that typed into the active element and changed its value
C20_Witness ==
    /\ call.op = "keyboard"
    /\ call.pre.active # Null
    /\ isEditable(call.pre.active)
    /\ call.arg = T_ab_backspace_c
    /\ els[call.pre.active].value = call.pre.els[call.pre.active].value \o <<"a", "c">>

\* a keyboard call in a document where no element was active
C20_NoActiveElement ==
    /\ call.op = "keyboard"
    /\ call.pre.active = Null
    /\ call.err # NoErr

-----------------------------------------------------------------------------
(* Tokenizing *)

Parsed == call.op = "parseText"

\* the literal-character tokens of the characters of a text, one for each
Literals(text) == [i \in 1..Len(text) |-> CharToken(text[i])]

BraceFree(text) == \A i \in 1..Len(text) : text[i] \notin {"{", "}"}

\* C21: tokenizing a text without braces yields as many literal-character
\* tokens as the text has characters, the i-th token carrying the i-th
\* character.
C21_BraceFree ==
    (Parsed /\ BraceFree(call.arg)) => log = Literals(call.arg)

\* a text of three characters without braces, a backslash among them
C21_Witness ==
    /\ Parsed
    /\ call.arg = <<"x", "\\", "B">>
    /\ Len(log) = 3

\* a prefix of k characters that the tokenizer takes one by one: no brace and
\* no backslash in it
PlainPrefix(text, k) ==
    \A i \in 1..k : text[i] \notin {"{", "}", "\\"}

\* the text from position i on
From(text, i) == SubSeq(text, i, Len(text))

\* a name over the alphabet of the texts in lower case: of its characters
\* only "B" has an upper case
Lowered(name) == [i \in 1..Len(name) |-> IF name[i] = "B" THEN "b" ELSE name[i]]

\* What C22 says of a text, with `names` telling which runs between a '{' and
\* the next '}' are names.  After a plain prefix: `{name}` gives one special
\* token with the name in lower case; a '{' with no later '}' gives a literal
\* '{'; a backslash and a '{' give one literal '{'.  In each case the rest
\* of the text is tokenized as a text of its own.
BracesParsed(text, tokens, names(_)) ==
    \A k \in 0..(Len(text) - 1) :
        PlainPrefix(text, k) =>
            /\ (text[k + 1] = "{" /\ indexOf(text, "}", k + 2) # 0
                   /\ names(SubSeq(text, k + 2, indexOf(text, "}", k + 2) - 1))) =>
                   tokens = Literals(SubSeq(text, 1, k))
                            \o <<SpecialToken(Lowered(
                                     SubSeq(text, k + 2, indexOf(text, "}", k + 2) - 1)))>>
                            \o parseText(From(text, indexOf(text, "}", k + 2) + 1))
            /\ (text[k + 1] = "{" /\ indexOf(text, "}", k + 2) = 0) =>
                   tokens = Literals(SubSeq(text, 1, k + 1)) \o parseText(From(text, k + 2))
            /\ (text[k + 1] = "\\" /\ k + 2 <= Len(text) /\ text[k + 2] = "{") =>
                   tokens = Literals(SubSeq(text, 1, k)) \o <<CharToken("{")>>
                            \o parseText(From(text, k + 3))

AnyRun(name) == TRUE
NonEmptyRun(name) == name # <<>>

\* C22 as stated: `{name}` not preceded by a backslash yields one special-key
\* token whose value is the name in lower case, for every run of characters
\* other than '}', the empty run included; a '{' with no later '}' yields a
\* literal '{' and the rest is tokenized normally; a backslash and a '{'
\* yield one literal '{'.
C22_Braces_AsStated ==
    Parsed => BracesParsed(call.arg, log, AnyRun)

\* C22 (amended): the same for every run that is not empty; of `{}` the '{'
\* is a literal '{' and the rest, from the '}' on, is tokenized normally.
C22_Braces ==
    Parsed =>
        /\ BracesParsed(call.arg, log, NonEmptyRun)
        /\ \A k \in 0..(Len(call.arg) - 2) :
               (PlainPrefix(call.arg, k) /\ call.arg[k + 1] = "{" /\ call.arg[k + 2] = "}") =>
                   log = Literals(SubSeq(call.arg, 1, k + 1)) \o parseText(From(call.arg, k + 2))

\* an escaped brace before a name: three literal tokens
C22_Witness ==
    /\ Parsed
    /\ call.arg = <<"\\", "{", "x", "}">>
    /\ log = Literals(<<"{", "x", "}">>)

\* a name in upper case between braces, after a plain character
C22_UpperCaseName ==
    /\ Parsed
    /\ call.arg = <<"x", "{", "B", "}">>
    /\ log = <<CharToken("x"), SpecialToken(<<"b">>)>>

-----------------------------------------------------------------------------
(* screen *)

\* the root set by the last setScreenElement since the last resetScreenElement,
\* Null if there is none
LastSet ==
    IF log = <<>> \/ log[Len(log)].op = "reset" THEN Null
    ELSE log[Len(log)].element

\* the cache holds no table, or one table and the element it is bound to
OneTable ==
    /\ (screen.cachedQueries = NoTable) <=> (screen.cachedElement = Null)
    /\ screen.cachedQueries # NoTable =>
           screen.cachedQueries.element = screen.cachedElement

\* C23: a screen query runs against the most recently set root if one was set
\* since the last reset, else against document.body, else it fails with a
\* no-document error; the table it uses is bound to the element it resolved,
\* and the cache holds no table or one table with the element it is bound to.
C23_ScreenRoot ==
    /\ OneTable
    /\ call.op = "screen" =>
          IF LastSet # Null
          THEN call.err = NoErr /\ call.arg = LastSet /\ call.target = LastSet
          ELSE IF screen.body # Null
          THEN call.err = NoErr /\ call.arg = screen.body /\ call.target = screen.body
          ELSE call.err = NoDocument

\* a query against the body after a root was set and reset
C23_Witness ==
    /\ call.op = "screen"
    /\ Len(log) = 2
    /\ log[1].op = "set"
    /\ LastSet = Null
    /\ call.target = screen.body
    /\ screen.body = 2
    /\ screen.cachedElement = 2

-----------------------------------------------------------------------------
(* render *)

\* the number of the most recently rendered fixture, 0 if there is none
Latest == Len(fixtures.base)

LatestMounted == Latest > 0 /\ Latest \in fixtures.mounted

\* C24 as stated: while the most recently rendered fixture is mounted, screen
\* is bound to the baseElement of that fixture, whatever was unmounted in the
\* meantime; after cleanup no fixture is mounted and the root of screen is
\* reset.
C24_ScreenFollowsLatest ==
    /\ LatestMounted => resolveElement(screen) = fixtures.base[Latest]
    /\ call.op = "cleanup" =>
           fixtures.mounted = {} /\ screen.currentElement = Null

\* an earlier fixture on the baseElement of the latest one is not mounted
SharedBaseUnmounted ==
    \E k \in 1..(Latest - 1) :
        k \notin fixtures.mounted /\ fixtures.base[k] = fixtures.base[Latest]

\* what holds of C24: screen follows the latest mounted fixture unless an
\* earlier fixture on the same baseElement is unmounted and that element is
\* not the body of the document
C24_ButSharedBase ==
    /\ (LatestMounted /\ ~(SharedBaseUnmounted /\ fixtures.base[Latest] # screen.body))
           => resolveElement(screen) = fixtures.base[Latest]
    /\ call.op = "cleanup" =>
           fixtures.mounted = {} /\ screen.currentElement = Null

-----------------------------------------------------------------------------
(* type: the events of one token *)

\* the tokens of the text of the call
Tokens == parseText(call.arg)

AllLiteral == \A i \in 1..Len(Tokens) : Tokens[i].kind = "char"

\* the value after the first i tokens of a text of literal characters
RECURSIVE ValueWith(_)
ValueWith(i) ==
    IF i = 0 THEN call.pre.els[call.target].value
    ELSE ValueWith(i - 1) \o Tokens[i].value

\* a key event of the call: its type, its key and code, and the value the
\* target has when it is dispatched
IsKey(ev, kind, key, value) ==
    /\ ev.type = kind
    /\ ev.target = call.target
    /\ ev.key = key /\ ev.code = key
    /\ ev.value = value

\* C25: for each literal-character token type dispatches keydown and keypress
\* on the old value, changes the value, and dispatches input(insertText) and
\* keyup on the new value, in this order on the target; for a name that is
\* not a special key it dispatches keydown, keypress and keyup with key and
\* code `{name}` and leaves the value as it is.
C25_TokenEvents ==
    /\ (TypeOnEditable /\ AllLiteral) =>
          /\ Len(Dispatched) = 4 * Len(Tokens)
          /\ \A i \in 1..Len(Tokens) :
                /\ IsKey(Dispatched[4 * i - 3], "keydown", Tokens[i].value, ValueWith(i - 1))
                /\ IsKey(Dispatched[4 * i - 2], "keypress", Tokens[i].value, ValueWith(i - 1))
                /\ Dispatched[4 * i - 1].type = "input"
                /\ Dispatched[4 * i - 1].target = call.target
                /\ Dispatched[4 * i - 1].inputType = "insertText"
                /\ Dispatched[4 * i - 1].data = Tokens[i].value
                /\ Dispatched[4 * i - 1].value = ValueWith(i)
                /\ IsKey(Dispatched[4 * i], "keyup", Tokens[i].value, ValueWith(i))
    /\ (TypeOnEditable /\ Len(Tokens) = 1 /\ Tokens[1].kind = "special"
          /\ ~isSpecialKey(Tokens[1].value)) =>
          /\ Len(Dispatched) = 3
          /\ IsKey(Dispatched[1], "keydown", Braced(Tokens[1].value), ValueWith(0))
          /\ IsKey(Dispatched[2], "keypress", Braced(Tokens[1].value), ValueWith(0))
          /\ IsKey(Dispatched[3], "keyup", Braced(Tokens[1].value), ValueWith(0))
          /\ els[call.target].value = ValueWith(0)

\* two literal characters typed after a value that was not empty
C25_Witness ==
    /\ TypeOnEditable
    /\ call.arg = T_Hi
    /\ call.pre.els[call.target].value # <<>>
    /\ Len(Dispatched) = 8

\* a name that is not a special key, typed on its own
C25_UnknownName ==
    /\ TypeOnEditable
    /\ call.arg = Braced(<<"f", "o", "o">>)
    /\ Len(Dispatched) = 3

-----------------------------------------------------------------------------
(* click on an option *)

ClickOnOption ==
    /\ call.op = "click"
    /\ isOptionElement(call.target)
    /\ ~isDisabled(Pre, call.target)

\* select.value: the value of the first selected option, empty if there is none
ValueOfSelect(s) ==
    LET chosen == {o \in OptionsOf(s) : els[o].selected}
    IN  IF chosen = {} THEN <<>>
        ELSE doc[CHOOSE o \in chosen : \A p \in chosen : o <= p].value

\* the input and change events the sequencer dispatched in the call
InputsAndChanges ==
    SelectSeq(Dispatched, LAMBDA ev : ev.type \in {"input", "change"})

\* one input and then one change on the select, after the click event
InputChangeAfterClick(s) ==
    /\ Types(InputsAndChanges) = <<"input", "change">>
    /\ \A i \in 1..2 : InputsAndChanges[i].target = s
    /\ Len(Dispatched) >= 3
    /\ Types(SubSeq(Dispatched, Len(Dispatched) - 2, Len(Dispatched)))
          = <<"click", "input", "change">>

\* C26: a click on an enabled option of a single select sets the value of the
\* select to the value of the option; in a multiple select it flips the
\* selected flag of that option and changes no other option; in both cases
\* one input and then one change event are dispatched on the select, after
\* the click event; an option outside any select changes no selection and
\* gets no input and no change event.
C26_ClickOption ==
    ClickOnOption =>
        IF closestSelect(call.target) = 0
        THEN /\ \A o \in Ids : els[o].selected = call.pre.els[o].selected
             /\ InputsAndChanges = <<>>
        ELSE /\ InputChangeAfterClick(closestSelect(call.target))
             /\ IF doc[closestSelect(call.target)].multiple
                THEN /\ els[call.target].selected = ~call.pre.els[call.target].selected
                     /\ \A o \in Ids \ {call.target} :
                           els[o].selected = call.pre.els[o].selected
                ELSE ValueOfSelect(closestSelect(call.target)) = doc[call.target].value

\* a click that deselects a selected option of a multiple select, another
\* option staying selected
C26_Witness ==
    /\ ClickOnOption
    /\ closestSelect(call.target) # 0
    /\ doc[closestSelect(call.target)].multiple
    /\ call.pre.els[call.target].selected
    /\ ~els[call.target].selected
    /\ \E o \in OptionsOf(closestSelect(call.target)) \ {call.target} : els[o].selected

\* a click on an option outside any select
C26_LooseOption ==
    /\ ClickOnOption
    /\ closestSelect(call.target) = 0
    /\ Len(Dispatched) > 0

-----------------------------------------------------------------------------
(* tab: its key events and the focus move between them *)

TabCall == call.op = "tab"

\* a Tab key event of the call on this element, dispatched while `focused`
\* has focus
IsTabKey(ev, kind, e, focused) ==
    /\ ev.type = kind
    /\ ~ev.native
    /\ ev.target = e
    /\ ev.key = K_Tab /\ ev.code = K_Tab
    /\ ev.shiftKey = call.arg
    /\ ev.active = focused

\* the events of the focus move: the old element loses focus before the new
\* one gets it
BlurBeforeFocus ==
    \A i \in 1..Len(log) :
        /\ log[i].type \in {"blur", "focusout"} =>
              /\ log[i].target = call.pre.active
              /\ \A j \in 1..(i - 1) : log[j].type \notin {"focus", "focusin"}
        /\ log[i].type \in {"focus", "focusin"} => log[i].target = active

\* C27: tab dispatches keydown(Tab) on the element that has focus before the
\* move, then moves focus, the old element losing it before the new one gets
\* it, then dispatches keyup(Tab) on the element that has focus after the
\* move; both events carry the shift option as shiftKey, and tab dispatches
\* no other key event.
C27_TabEvents ==
    (TabCall /\ call.pre.active # Null /\ active # Null) =>
        /\ Len(Dispatched) = 2
        /\ IsTabKey(log[1], "keydown", call.pre.active, call.pre.active)
        /\ IsTabKey(log[Len(log)], "keyup", active, active)
        /\ BlurBeforeFocus

\* a backward tab that moved focus from one focusable element to another:
\* the keyup went to the new element, after a blur and a focus
C27_Witness ==
    /\ TabCall
    /\ call.arg
    /\ call.pre.active \notin {Null, Body, active}
    /\ log[Len(log)].target = active
    /\ \E i \in 1..Len(log) : log[i].type = "blur"
    /\ \E i \in 1..Len(log) : log[i].type = "focus"

-----------------------------------------------------------------------------
(* click on a label of a disabled control *)

ClickOnLabelOfDisabled ==
    /\ call.op = "click"
    /\ isLabelElement(call.target)
    /\ ~isDisabled(Pre, call.target)
    /\ labelControl(call.target) # 0
    /\ isDisabled(Pre, labelControl(call.target))

\* C28 as stated: a click on a label that is not disabled and whose control
\* is disabled dispatches no event on the control, does not focus it and
\* does not change its checked state.
C28_LabelOfDisabled ==
    ClickOnLabelOfDisabled =>
        /\ \A i \in 1..Len(log) : log[i].target # labelControl(call.target)
        /\ active # labelControl(call.target)
        /\ els[labelControl(call.target)].checked
              = call.pre.els[labelControl(call.target)].checked

\* what holds of C28: the disabled control does not get focus
C28_NoFocus ==
    ClickOnLabelOfDisabled => active # labelControl(call.target)

\* the checked state of the disabled control is changed by the click
C28_CheckedFlipped ==
    /\ ClickOnLabelOfDisabled
    /\ els[labelControl(call.target)].checked
          # call.pre.els[labelControl(call.target)].checked

-----------------------------------------------------------------------------
(* Tab from outside the tab order *)

\* a tab call that starts with focus on no element of the tab order, which
\* has at least one element
TabFromOutside ==
    /\ TabCall
    /\ Len(getFocusableElements(Pre)) >= 1
    /\ seqIndexOf(getFocusableElements(Pre), call.pre.active) = 0

FirstFocusable == getFocusableElements(Pre)[1]
LastFocusable == getFocusableElements(Pre)[Len(getFocusableElements(Pre))]

\* C29 as stated: when the active element is not in the tab order, a
\* forward tab focuses the first focusable element and a backward tab the
\* last one, for every number n >= 1 of focusable elements.
C29_TabFromOutside ==
    TabFromOutside =>
        active = (IF call.arg THEN LastFocusable ELSE FirstFocusable)

\* what holds of C29: the forward move focuses the first focusable element,
\* and the backward move focuses the last one when it is the only one
C29_ForwardFirst ==
    TabFromOutside /\ (~call.arg \/ Len(getFocusableElements(Pre)) = 1) =>
        active = (IF call.arg THEN LastFocusable ELSE FirstFocusable)

\* a backward tab from outside a tab order of two or more elements ends on
\* the element before the last one
C29_BackwardBeforeLast ==
    /\ TabFromOutside
    /\ call.arg
    /\ Len(getFocusableElements(Pre)) >= 2
    /\ active = getFocusableElements(Pre)[Len(getFocusableElements(Pre)) - 1]
    /\ active # LastFocusable

-----------------------------------------------------------------------------
(* type and keyboard after a token that moved focus *)

\* a type or keyboard call that reached its tokens
TypingCall ==
    /\ call.op \in {"type", "keyboard"}
    /\ call.target # Null
    /\ call.err = NoErr

KeyOrInput == {"keydown", "keypress", "keyup", "beforeinput", "input"}

\* C30: in one type or keyboard call, every key event and input event is
\* dispatched on the element the call was given (for keyboard: the element
\* active when the call started), also after a {tab} or {shift+tab} token
\* moved focus, and no other element's value is changed.
C30_TypingStaysOnTarget ==
    TypingCall =>
        /\ \A i \in 1..Len(log) :
               (~log[i].native /\ log[i].type \in KeyOrInput) =>
                   log[i].target = call.target
        /\ \A e \in 1..Len(doc) :
               e # call.target => els[e].value = call.pre.els[e].value

\* a call whose tab token moved focus to another element and whose later
\* token changed the value of the element the call was given
C30_Witness ==
    /\ TypingCall
    /\ active \notin {Null, call.target}
    /\ els[call.target].value # call.pre.els[call.target].value
    /\ \E i \in 1..Len(log) :
           /\ log[i].type = "input"
           /\ log[i].target = call.target
           /\ log[i].active = active

-----------------------------------------------------------------------------
(* The element the dblclick event of dblClick and tripleClick goes to *)

MultiClick == MultiClickOnEnabled("dblClick") \/ MultiClickOnEnabled("tripleClick")

\* the elements that received a click event, and those that received a
\* dblclick event, in the call
ClickedElements == {Gesture[i].target : i \in {j \in 1..Len(Gesture) : Gesture[j].type = "click"}}
DblClickedElements ==
    {Gesture[i].target : i \in {j \in 1..Len(Gesture) : Gesture[j].type = "dblclick"}}

\* C31 as stated: in dblClick and tripleClick the dblclick event is
\* dispatched on the element that received the click events of the click
\* sequences, also when the target is a label bound to a control.
C31_DblClickOnClicked ==
    MultiClick => DblClickedElements = ClickedElements

\* what holds of C31: the two elements are the same when the target is not
\* a label bound to a control
C31_ButLabels ==
    MultiClick /\ clickTarget(call.target) = call.target =>
        DblClickedElements = ClickedElements

\* a dblClick on a label bound to a control: click events on the control,
\* the dblclick event on the label
C31_DblClickOnLabel ==
    /\ MultiClickOnEnabled("dblClick")
    /\ clickTarget(call.target) # call.target
    /\ ClickedElements = {clickTarget(call.target)}
    /\ DblClickedElements = {call.target}

-----------------------------------------------------------------------------
(* result.start() *)

\* the positions of the trace where this happened
When(event) == {i \in 1..Len(app.trace) : app.trace[i].event = event}

\* C32: without autoStart, any number of calls of start(), one after the
\* other or overlapping, starts the application exactly once, and every call
\* resolves only after that start has completed; with autoStart, start()
\* never starts the application a second time.
C32_StartsOnce ==
    /\ Cardinality(When("app.start")) =
           IF app.autoStart \/ When("awaits") # {} THEN 1 ELSE 0
    /\ \A i \in When("resolved") :
           /\ \E j \in When("started") : j < i
           /\ \A j \in When("app.start") : \E k \in When("started") :
                  j < k /\ k < i /\ app.trace[k].of = app.trace[j].of

\* without autoStart: three calls of start(), the second and the third made
\* while the first was waiting for the start to complete, all resolved
C32_Witness ==
    /\ ~app.autoStart
    /\ Cardinality(When("resolved")) = 3
    /\ \A i \in When("awaits") : \A j \in When("started") : i < j

====
